---- MODULE Spec2Model ----
(***************************************************************************)
(* Model of the combat core of ceelaxy: the bullet pool (bullets.c) and    *)
(* the unit pool (unit.c) as heap-allocated doubly linked lists, the       *)
(* damage arithmetic of the hit checks, and the frame loop of runGame.     *)
(*                                                                         *)
(* Lengths, speeds and damage amounts are floats in the program; here they *)
(* are integers counting thousandths (Milli).  Times are milliseconds.     *)
(***************************************************************************)
EXTENDS Integers, Sequences, FiniteSets, TLC

(* ---------------------------------------------------------------------- *)
(* Bounds of the model                                                     *)
(* ---------------------------------------------------------------------- *)
MaxBulletNodes == 3      \* BulletNode objects the allocator can hand out
MaxUnitNodes == 3        \* UnitNode objects the allocator can hand out
MaxIdx == 4              \* spawn attempts per run of the pool specification
PoolMaxCol == 2          \* max_col given to insertToUnitList in pool runs
PoolMaxLn == 2           \* grid lines filled in pool runs

(* ---------------------------------------------------------------------- *)
(* Program constants                                                       *)
(* ---------------------------------------------------------------------- *)
NULL == 0
Milli == 1000
UINT8 == 256
UINT16 == 65536
BULLET_OWNER_PLAYER == 0
BULLET_OWNER_UNIT == 1
BULLET_MOVEMENT_DIRECTION_UP == 1
BULLET_MOVEMENT_DIRECTION_DOWN == 2
FRAME_TOP == 0 - 60000
FRAME_BOTTOM == 60000
BULLET_SIZE_X == 250
BULLET_SIZE_Y == 250
BULLET_SIZE_Z == 2000
DEFAULT_UNIT_WIDTH == 6000
DEFAULT_UNIT_HEIGHT == 6000
UNIT_SPACE_VERTICAL == 6000
UNIT_SPACE_HORIZONTAL == 3000
DEFAULT_UNIT_HEALTH == 100
DEFAULT_UNIT_ENERGY == 100
UNIT_Z_MAX_AREA == 300000
UNIT_Z_OFFSET == 0 - 30000

BulletAddr == 1..MaxBulletNodes
UnitAddr == 1..MaxUnitNodes

VARIABLES
  bullets,   \* BulletList: head, tail, length, idx, last_spawn
  bheap,     \* allocated BulletNode objects, by address
  units,     \* UnitList (game->enemies): head, tail, length
  uheap,     \* allocated UnitNode objects, by address
  player,    \* Player: state and position
  stat,      \* GameStat: hits, misses, score
  level,     \* Level: number and combat parameters
  run,       \* locals of runGame: over, over_tm, and the step reached
  now,       \* GetTime()
  keys,      \* keyboard: whether SPACE is down, and how often that changed
  hist,      \* history: spawn indexes freed so far, damage applications
  ev,        \* the last operation performed and what it was given
  mode,      \* which part of the program this run exercises
  arg,       \* arguments of the function under evaluation
  ret        \* its result

poolVars == <<bullets, bheap, units, uheap>>
gameVars == <<player, stat, level, run, now, keys, hist>>
fnVars == <<arg, ret>>
vars == <<bullets, bheap, units, uheap, player, stat, level, run, now, keys,
          hist, ev, mode, arg, ret>>

(* ---------------------------------------------------------------------- *)
(* Heap helpers                                                            *)
(* ---------------------------------------------------------------------- *)
\* free(node): the object at this address no longer exists
Free(heap, node) == [a \in (DOMAIN heap) \ {node} |-> heap[a]]

\* malloc: any address not in use, or NULL when the allocation fails
MallocChoices(heap, addrs) == (addrs \ DOMAIN heap) \cup {NULL}

\* the addresses linked in a list, from head following next
RECURSIVE Walk(_, _, _)
Walk(heap, node, fuel) ==
  IF node = NULL \/ fuel = 0 \/ node \notin DOMAIN heap THEN <<>>
  ELSE <<node>> \o Walk(heap, heap[node].next, fuel - 1)

BulletAddrs(list, heap) == Walk(heap, list.head, MaxBulletNodes + 1)
UnitAddrs(list, heap) == Walk(heap, list.head, MaxUnitNodes + 1)

Range(s) == {s[i] : i \in DOMAIN s}
Abs(n) == IF n < 0 THEN 0 - n ELSE n
Sgn(n) == IF n < 0 THEN 0 - 1 ELSE IF n > 0 THEN 1 ELSE 0

(* ---------------------------------------------------------------------- *)
(* Bullets (bullets.c)                                                     *)
(* ---------------------------------------------------------------------- *)
newBulletAreaFrame == [top |-> FRAME_TOP, bottom |-> FRAME_BOTTOM]

newBulletList(time) ==
  [head |-> NULL, tail |-> NULL, length |-> 0, idx |-> 0,
   last_spawn |-> time, frame |-> newBulletAreaFrame]

newBulletMovement(direction, acceleration, speed) ==
  [acceleration |-> acceleration, speed |-> speed,
   dir |-> [x |-> 0,
            z |-> IF direction = BULLET_MOVEMENT_DIRECTION_UP
                  THEN 0 - Milli ELSE Milli]]

\* integer square root
RECURSIVE IsqrtIn(_, _, _)
IsqrtIn(n, lo, hi) ==
  IF lo >= hi THEN lo
  ELSE LET mid == (lo + hi + 1) \div 2
       IN IF mid * mid <= n THEN IsqrtIn(n, mid, hi) ELSE IsqrtIn(n, lo, mid - 1)

sqrtf(n) == IsqrtIn(n, 0, 46340)

\* the unit vector from `from` towards (to_x, to_z); lengths are taken in
\* tenths to keep the squares small
newBulletAimedMovement(from, to_x, to_z, acceleration, speed) ==
  LET dx == Sgn(to_x - from.x) * (Abs(to_x - from.x) \div 100)
      dz == Sgn(to_z - from.z) * (Abs(to_z - from.z) \div 100)
      len == sqrtf(dx * dx + dz * dz)
      dir == IF len > 0
             THEN [x |-> Sgn(dx) * ((Abs(dx) * Milli) \div len),
                   z |-> Sgn(dz) * ((Abs(dz) * Milli) \div len)]
             ELSE [x |-> 0, z |-> Milli]
  IN [acceleration |-> acceleration, speed |-> speed, dir |-> dir]

newBulletPosition(x, y, z) == [x |-> x, y |-> y, z |-> z]

newBulletParameters(health, energy) == [health |-> health, energy |-> energy]

newBullet(direction, position, params, owner, acceleration, speed) ==
  [movement |-> newBulletMovement(direction, acceleration, speed),
   position |-> position, params |-> params, alive |-> TRUE, owner |-> owner]

newBulletAimedAt(position, params, owner, target_x, target_z,
                 acceleration, speed) ==
  [movement |-> newBulletAimedMovement(position, target_x, target_z,
                                       acceleration, speed),
   position |-> position, params |-> params, alive |-> TRUE, owner |-> owner]

\* variant: the new node is not linked back to its predecessor
newBulletNode_NoPrev(prev, bullet, idx) ==
  [idx |-> idx, prev |-> NULL, next |-> NULL, self |-> bullet]

newBulletNode(prev, bullet, idx) ==
  [idx |-> idx, prev |-> prev, next |-> NULL, self |-> bullet]

\* variant: the length field is not incremented
insertBulletIntoList_NoLength(list, heap, bullet, addr) ==
  LET l1 == [list EXCEPT !.idx = @ + 1]
  IN IF addr = NULL
     THEN [list |-> l1, heap |-> heap]
     ELSE LET node == newBulletNode(l1.tail, bullet, l1.idx)
              h1 == (addr :> node) @@ heap
              l2 == IF l1.head = NULL THEN [l1 EXCEPT !.head = addr] ELSE l1
              prev == l2.tail
              l3 == [l2 EXCEPT !.tail = addr]
              h2 == IF prev # NULL THEN [h1 EXCEPT ![prev].next = addr] ELSE h1
          IN [list |-> l3, heap |-> h2]

\* variant: the spawn counter is advanced only every second spawn
insertBulletIntoList_StaleIdx(list, heap, bullet, addr) ==
  LET l1 == [list EXCEPT !.idx = IF @ % 2 = 1 THEN @ ELSE @ + 1]
  IN IF addr = NULL
     THEN [list |-> l1, heap |-> heap]
     ELSE LET node == newBulletNode(l1.tail, bullet, l1.idx)
              h1 == (addr :> node) @@ heap
              l2 == IF l1.head = NULL THEN [l1 EXCEPT !.head = addr] ELSE l1
              prev == l2.tail
              l3 == [l2 EXCEPT !.tail = addr]
              h2 == IF prev # NULL THEN [h1 EXCEPT ![prev].next = addr] ELSE h1
              l4 == [l3 EXCEPT !.length = (@ + 1) % UINT16]
          IN [list |-> l4, heap |-> h2]

\* addr is the result of malloc inside newBulletNode (NULL: failure)
insertBulletIntoList(list, heap, bullet, addr) ==
  LET l1 == [list EXCEPT !.idx = @ + 1]
  IN IF addr = NULL
     THEN [list |-> l1, heap |-> heap]
     ELSE LET node == newBulletNode(l1.tail, bullet, l1.idx)
              h1 == (addr :> node) @@ heap
              l2 == IF l1.head = NULL THEN [l1 EXCEPT !.head = addr] ELSE l1
              prev == l2.tail
              l3 == [l2 EXCEPT !.tail = addr]
              h2 == IF prev # NULL THEN [h1 EXCEPT ![prev].next = addr] ELSE h1
              l4 == [l3 EXCEPT !.length = (@ + 1) % UINT16]
          IN [list |-> l4, heap |-> h2]

\* variant: the loop stops at the last node instead of after it
RECURSIVE removeBulletsLoop_SkipTail(_, _, _)
removeBulletsLoop_SkipTail(list, heap, node) ==
  IF node = NULL THEN [list |-> list, heap |-> heap]
  ELSE LET n == heap[node]
           next == n.next
       IN IF next = NULL THEN [list |-> list, heap |-> heap]
          ELSE IF ~n.self.alive
          THEN LET l1 == IF node = list.head THEN [list EXCEPT !.head = n.next] ELSE list
                   l2 == IF node = list.tail THEN [l1 EXCEPT !.tail = n.prev] ELSE l1
                   h1 == IF n.prev # NULL THEN [heap EXCEPT ![n.prev].next = n.next] ELSE heap
                   h2 == IF n.next # NULL THEN [h1 EXCEPT ![n.next].prev = n.prev] ELSE h1
                   h3 == Free(h2, node)
                   l3 == [l2 EXCEPT !.length = (@ + UINT16 - 1) % UINT16]
               IN removeBulletsLoop_SkipTail(l3, h3, next)
          ELSE removeBulletsLoop_SkipTail(list, heap, next)

RECURSIVE removeBulletsLoop(_, _, _)
removeBulletsLoop(list, heap, node) ==
  IF node = NULL THEN [list |-> list, heap |-> heap]
  ELSE LET n == heap[node]
           next == n.next
       IN IF ~n.self.alive
          THEN LET l1 == IF node = list.head THEN [list EXCEPT !.head = n.next] ELSE list
                   l2 == IF node = list.tail THEN [l1 EXCEPT !.tail = n.prev] ELSE l1
                   h1 == IF n.prev # NULL THEN [heap EXCEPT ![n.prev].next = n.next] ELSE heap
                   h2 == IF n.next # NULL THEN [h1 EXCEPT ![n.next].prev = n.prev] ELSE h1
                   h3 == Free(h2, node)
                   l3 == [l2 EXCEPT !.length = (@ + UINT16 - 1) % UINT16]
               IN removeBulletsLoop(l3, h3, next)
          ELSE removeBulletsLoop(list, heap, next)

removeBullets(list, heap) == removeBulletsLoop(list, heap, list.head)

(* ---------------------------------------------------------------------- *)
(* Units (unit.c)                                                          *)
(* ---------------------------------------------------------------------- *)
newUnitState ==
  [health |-> DEFAULT_UNIT_HEALTH, energy |-> DEFAULT_UNIT_ENERGY,
   init_health |-> DEFAULT_UNIT_HEALTH, init_energy |-> DEFAULT_UNIT_ENERGY,
   hit_time |-> 0, last_shoot |-> 0]

newUnitPosition ==
  [x |-> 0, y |-> 0, z |-> 0, z_max_area |-> UNIT_Z_MAX_AREA,
   z_offset |-> UNIT_Z_OFFSET, in_front |-> FALSE, ln |-> 0, col |-> 0]

\* the offsets of the unit's movement action
newMovementAction == [x |-> 0, y |-> 0, z |-> 0]

newUnit ==
  [state |-> newUnitState, position |-> newUnitPosition,
   action |-> newMovementAction, visible |-> TRUE]

\* variant: the line is advanced one column late
newUnitNode_LateWrap(heap, prev, unit, max_col, mid_x, z_offset) ==
  LET col0 == IF prev # NULL THEN heap[prev].self.position.col + 1 ELSE 0
      prev_ln == IF prev # NULL THEN heap[prev].self.position.ln ELSE 0
      ln == IF col0 > max_col THEN prev_ln + 1 ELSE prev_ln
      col == IF col0 > max_col THEN 0 ELSE col0
      x == (DEFAULT_UNIT_WIDTH + UNIT_SPACE_HORIZONTAL) * col - mid_x
      z == (DEFAULT_UNIT_HEIGHT + UNIT_SPACE_VERTICAL) * ln - z_offset
  IN [next |-> NULL, prev |-> prev,
      self |-> [unit EXCEPT !.position.col = col, !.position.ln = ln,
                            !.position.x = x, !.position.z = z,
                            !.position.y = 0]]

\* grid placement of the new node from its predecessor
newUnitNode(heap, prev, unit, max_col, mid_x, z_offset) ==
  LET col0 == IF prev # NULL THEN heap[prev].self.position.col + 1 ELSE 0
      prev_ln == IF prev # NULL THEN heap[prev].self.position.ln ELSE 0
      ln == IF col0 = max_col THEN prev_ln + 1 ELSE prev_ln
      col == IF col0 = max_col THEN 0 ELSE col0
      x == (DEFAULT_UNIT_WIDTH + UNIT_SPACE_HORIZONTAL) * col - mid_x
      z == (DEFAULT_UNIT_HEIGHT + UNIT_SPACE_VERTICAL) * ln - z_offset
  IN [next |-> NULL, prev |-> prev,
      self |-> [unit EXCEPT !.position.col = col, !.position.ln = ln,
                            !.position.x = x, !.position.z = z,
                            !.position.y = 0]]

insertToUnitList(list, heap, unit, max_col, mid_x, z_offset, addr) ==
  IF addr = NULL
  THEN [list |-> list, heap |-> heap]
  ELSE LET node == newUnitNode(heap, list.tail, unit, max_col, mid_x, z_offset)
           h1 == (addr :> node) @@ heap
       IN IF list.length = 0
          THEN [list |-> [list EXCEPT !.head = addr, !.tail = addr,
                                      !.length = (@ + 1) % UINT16],
                heap |-> h1]
          ELSE [list |-> [list EXCEPT !.tail = addr,
                                      !.length = (@ + 1) % UINT16],
                heap |-> [h1 EXCEPT ![list.tail].next = addr,
                                    ![addr].prev = list.tail]]

\* variant: the tail pointer is not moved when the last node is removed
RECURSIVE removeUnitsLoop_KeepTail(_, _, _)
removeUnitsLoop_KeepTail(list, heap, node) ==
  IF node = NULL THEN [list |-> list, heap |-> heap]
  ELSE LET n == heap[node]
           next == n.next
       IN IF ~n.self.visible
          THEN LET l1 == IF node = list.head THEN [list EXCEPT !.head = n.next] ELSE list
                   h1 == IF n.prev # NULL THEN [heap EXCEPT ![n.prev].next = n.next] ELSE heap
                   h2 == IF n.next # NULL THEN [h1 EXCEPT ![n.next].prev = n.prev] ELSE h1
                   h3 == Free(h2, node)
                   l3 == [l1 EXCEPT !.length = (@ + UINT16 - 1) % UINT16]
               IN removeUnitsLoop_KeepTail(l3, h3, next)
          ELSE removeUnitsLoop_KeepTail(list, heap, next)

RECURSIVE removeUnitsLoop(_, _, _)
removeUnitsLoop(list, heap, node) ==
  IF node = NULL THEN [list |-> list, heap |-> heap]
  ELSE LET n == heap[node]
           next == n.next
       IN IF ~n.self.visible
          THEN LET l1 == IF node = list.head THEN [list EXCEPT !.head = n.next] ELSE list
                   l2 == IF node = list.tail THEN [l1 EXCEPT !.tail = n.prev] ELSE l1
                   h1 == IF n.prev # NULL THEN [heap EXCEPT ![n.prev].next = n.next] ELSE heap
                   h2 == IF n.next # NULL THEN [h1 EXCEPT ![n.next].prev = n.prev] ELSE h1
                   h3 == Free(h2, node)
                   l3 == [l2 EXCEPT !.length = (@ + UINT16 - 1) % UINT16]
               IN removeUnitsLoop(l3, h3, next)
          ELSE removeUnitsLoop(list, heap, next)

removeUnits(list, heap) == removeUnitsLoop(list, heap, list.head)

emptyUnitList == [head |-> NULL, tail |-> NULL, length |-> 0]

(* ---------------------------------------------------------------------- *)
(* Statistics (stat.c)                                                     *)
(* ---------------------------------------------------------------------- *)
GAME_STAT_HIT_COST == 1
GAME_STAT_MISS_COST == 1
GAME_STAT_SHOOT_COST == 2

newGameStat == [score |-> 0, hits |-> 0, misses |-> 0]

addHitIntoGameStat(s) ==
  [s EXCEPT !.hits = @ + 1, !.score = @ + GAME_STAT_HIT_COST]

\* variant: the miss is counted but not charged
addMissIntoGameStat_NoScore(s) == [s EXCEPT !.misses = @ + 1]

addMissIntoGameStat(s) ==
  [s EXCEPT !.misses = @ + 1, !.score = @ - GAME_STAT_MISS_COST]

addShootIntoGameStat(s) == [s EXCEPT !.score = @ - GAME_STAT_SHOOT_COST]

(* ---------------------------------------------------------------------- *)
(* Levels (levels.c, levels.h)                                             *)
(* ---------------------------------------------------------------------- *)
INIT_LEVEL_UNIT_BULLET_ACCELERATION == 5
INIT_LEVEL_UNIT_BULLET_INIT_SPEED == 800
INIT_LEVEL_UNIT_BULLET_DELAY == 1200
INIT_LEVEL_UNIT_DAMAGE_LIFE == 5000
INIT_LEVEL_UNIT_DAMAGE_ENERGY == 10000
INIT_LEVEL_PLAYER_BULLET_ACCELERATION == 10
INIT_LEVEL_PLAYER_BULLET_INIT_SPEED == 2000
INIT_LEVEL_PLAYER_BULLET_DELAY == 200
INIT_LEVEL_PLAYER_DAMAGE_LIFE == 20000
INIT_LEVEL_PLAYER_DAMAGE_ENERGY == 10000
LEVEL_PARAMS_STEP == 50

\* the first level, outside debug mode
getFirstLevel ==
  [level |-> 0,
   units |-> [bullet_acceleration |-> INIT_LEVEL_UNIT_BULLET_ACCELERATION,
              bullet_init_speed |-> INIT_LEVEL_UNIT_BULLET_INIT_SPEED,
              bullet_delay_spawn |-> INIT_LEVEL_UNIT_BULLET_DELAY,
              damage_life |-> INIT_LEVEL_UNIT_DAMAGE_LIFE,
              damage_energy |-> INIT_LEVEL_UNIT_DAMAGE_ENERGY],
   player |-> [bullet_acceleration |-> INIT_LEVEL_PLAYER_BULLET_ACCELERATION,
               bullet_init_speed |-> INIT_LEVEL_PLAYER_BULLET_INIT_SPEED,
               bullet_delay_spawn |-> INIT_LEVEL_PLAYER_BULLET_DELAY,
               damage_life |-> INIT_LEVEL_PLAYER_DAMAGE_LIFE,
               damage_energy |-> INIT_LEVEL_PLAYER_DAMAGE_ENERGY]]

StepUp(p) == (p * (Milli + LEVEL_PARAMS_STEP)) \div Milli
StepDown(p) == (p * (Milli - LEVEL_PARAMS_STEP)) \div Milli

goToNextLevel(l) ==
  [level |-> (l.level + 1) % UINT16,
   units |-> [bullet_acceleration |-> StepUp(l.units.bullet_acceleration),
              bullet_init_speed |-> StepUp(l.units.bullet_init_speed),
              bullet_delay_spawn |-> StepDown(l.units.bullet_delay_spawn),
              damage_life |-> StepUp(l.units.damage_life),
              damage_energy |-> StepUp(l.units.damage_energy)],
   player |-> [bullet_acceleration |-> StepUp(l.player.bullet_acceleration),
               bullet_init_speed |-> StepUp(l.player.bullet_init_speed),
               bullet_delay_spawn |-> StepDown(l.player.bullet_delay_spawn),
               damage_life |-> StepUp(l.player.damage_life),
               damage_energy |-> StepUp(l.player.damage_energy)]]

\* the float damage of a level converted to the uint8_t of BulletParameters:
\* truncation when the value fits, any value when it does not (undefined)
FloatToUint8(v) ==
  IF v \div Milli < UINT8 THEN {v \div Milli} ELSE 0..(UINT8 - 1)

(* ---------------------------------------------------------------------- *)
(* Damage arithmetic of the hit checks (unit.c, player.c)                  *)
(* ---------------------------------------------------------------------- *)
\* variant: plain 8-bit subtraction
subDamage_Wrapping(cur, dmg) == (cur - dmg + UINT8) % UINT8

\* (cur > dmg) ? (uint8_t)(cur - dmg) : 0u
subDamage(cur, dmg) == IF cur > dmg THEN (cur - dmg) % UINT8 ELSE 0

\* variant: plain subtraction on a signed value
hitDamage_Signed(cur, dmg) == IF cur > 0 THEN cur - dmg ELSE cur

\* if (cur > 0) cur = ...
hitDamage(cur, dmg) == IF cur > 0 THEN subDamage(cur, dmg) ELSE cur

(* ---------------------------------------------------------------------- *)
(* Bounding boxes                                                          *)
(* ---------------------------------------------------------------------- *)
\* extents of the ship model box, supplied by the asset provider
ShipBoxX == 6000
ShipBoxY == 8000
ShipBoxZ == 6000

getBulletBoundingBox(bullet) ==
  [min |-> [x |-> bullet.position.x - BULLET_SIZE_X \div 2,
            y |-> bullet.position.y - BULLET_SIZE_Y \div 2,
            z |-> bullet.position.z - BULLET_SIZE_Z \div 2],
   max |-> [x |-> bullet.position.x + BULLET_SIZE_X \div 2,
            y |-> bullet.position.y + BULLET_SIZE_Y \div 2,
            z |-> bullet.position.z + BULLET_SIZE_Z \div 2]]

\* the box is translated by the action offsets; its rotation is left out
getUnitBoundingBox(unit) ==
  LET x == unit.position.x + unit.action.x
      y == unit.position.y + unit.action.y
      z == unit.position.z + unit.action.z + unit.position.z_offset
  IN [min |-> [x |-> x - ShipBoxX \div 2, y |-> y - ShipBoxY \div 2,
               z |-> z - ShipBoxZ \div 2],
      max |-> [x |-> x + ShipBoxX \div 2, y |-> y + ShipBoxY \div 2,
               z |-> z + ShipBoxZ \div 2]]

getPlayerBoundingBox(p) ==
  LET x == p.position.x
      y == p.position.y
      z == p.position.z + p.position.offset_z
  IN [min |-> [x |-> x - ShipBoxX \div 2, y |-> y - ShipBoxY \div 2,
               z |-> z - ShipBoxZ \div 2],
      max |-> [x |-> x + ShipBoxX \div 2, y |-> y + ShipBoxY \div 2,
               z |-> z + ShipBoxZ \div 2]]

CheckCollisionBoxes(box1, box2) ==
  /\ box1.max.x >= box2.min.x /\ box1.min.x <= box2.max.x
  /\ ~(box1.max.y < box2.min.y \/ box1.min.y > box2.max.y)
  /\ ~(box1.max.z < box2.min.z \/ box1.min.z > box2.max.z)

(* ---------------------------------------------------------------------- *)
(* Bullet update and draw (bullets.c)                                      *)
(* ---------------------------------------------------------------------- *)
\* variant: a miss is counted for the bullets of either owner
updateBullet_CountsAll(bullet, frame, s) ==
  IF ~bullet.alive THEN [bullet |-> bullet, stat |-> s]
  ELSE LET speed == bullet.movement.speed + bullet.movement.acceleration
           x == bullet.position.x + (speed * bullet.movement.dir.x) \div Milli
           z == bullet.position.z + (speed * bullet.movement.dir.z) \div Milli
           b1 == [bullet EXCEPT !.movement.speed = speed,
                                !.position.x = x, !.position.z = z]
       IN IF z < frame.top \/ z > frame.bottom
          THEN [bullet |-> [b1 EXCEPT !.alive = FALSE],
                stat |-> addMissIntoGameStat(s)]
          ELSE [bullet |-> b1, stat |-> s]

\* variant: a dead bullet keeps flying
updateBullet_NoAliveTest(bullet, frame, s) ==
  LET speed == bullet.movement.speed + bullet.movement.acceleration
      x == bullet.position.x + (speed * bullet.movement.dir.x) \div Milli
      z == bullet.position.z + (speed * bullet.movement.dir.z) \div Milli
      b1 == [bullet EXCEPT !.movement.speed = speed,
                           !.position.x = x, !.position.z = z]
  IN IF z < frame.top \/ z > frame.bottom
     THEN [bullet |-> [b1 EXCEPT !.alive = FALSE],
           stat |-> IF bullet.owner = BULLET_OWNER_PLAYER
                    THEN addMissIntoGameStat(s) ELSE s]
     ELSE [bullet |-> b1, stat |-> s]

\* variant: the edges of the frame count as outside
updateBullet_Inclusive(bullet, frame, s) ==
  IF ~bullet.alive THEN [bullet |-> bullet, stat |-> s]
  ELSE LET speed == bullet.movement.speed + bullet.movement.acceleration
           x == bullet.position.x + (speed * bullet.movement.dir.x) \div Milli
           z == bullet.position.z + (speed * bullet.movement.dir.z) \div Milli
           b1 == [bullet EXCEPT !.movement.speed = speed,
                                !.position.x = x, !.position.z = z]
       IN IF z <= frame.top \/ z >= frame.bottom
          THEN [bullet |-> [b1 EXCEPT !.alive = FALSE],
                stat |-> IF bullet.owner = BULLET_OWNER_PLAYER
                         THEN addMissIntoGameStat(s) ELSE s]
          ELSE [bullet |-> b1, stat |-> s]

\* returns the bullet and the statistics
updateBullet(bullet, frame, s) ==
  IF ~bullet.alive THEN [bullet |-> bullet, stat |-> s]
  ELSE LET speed == bullet.movement.speed + bullet.movement.acceleration
           x == bullet.position.x + (speed * bullet.movement.dir.x) \div Milli
           z == bullet.position.z + (speed * bullet.movement.dir.z) \div Milli
           b1 == [bullet EXCEPT !.movement.speed = speed,
                                !.position.x = x, !.position.z = z]
       IN IF z < frame.top \/ z > frame.bottom
          THEN [bullet |-> [b1 EXCEPT !.alive = FALSE],
                stat |-> IF bullet.owner = BULLET_OWNER_PLAYER
                         THEN addMissIntoGameStat(s) ELSE s]
          ELSE [bullet |-> b1, stat |-> s]

drawBullet(bullet, frame, s) ==
  IF ~bullet.alive THEN [bullet |-> bullet, stat |-> s]
  ELSE updateBullet(bullet, frame, s)

\* the loop of drawBullets; visited collects the idx of the nodes walked
RECURSIVE drawBulletsLoop(_, _, _, _, _)
drawBulletsLoop(heap, frame, s, node, visited) ==
  IF node = NULL THEN [heap |-> heap, stat |-> s, visited |-> visited]
  ELSE LET r == drawBullet(heap[node].self, frame, s)
       IN drawBulletsLoop([heap EXCEPT ![node].self = r.bullet], frame,
                          r.stat, heap[node].next,
                          Append(visited, heap[node].idx))

\* variant: the sweep after the loop is left out
drawBullets_NoSweep(list, heap, s) ==
  LET r == drawBulletsLoop(heap, list.frame, s, list.head, <<>>)
  IN [list |-> list, heap |-> r.heap, stat |-> r.stat, visited |-> r.visited]

drawBullets(list, heap, s) ==
  LET r == drawBulletsLoop(heap, list.frame, s, list.head, <<>>)
      d == removeBullets(list, r.heap)
  IN [list |-> d.list, heap |-> d.heap, stat |-> r.stat, visited |-> r.visited]

\* bulletCollisionRadius: both shape radii are 0.25
bulletCollisionRadius(b) == 250

bulletsOverlapXZ(a, b) ==
  LET dx == a.position.x - b.position.x
      dz == a.position.z - b.position.z
      r == bulletCollisionRadius(a) + bulletCollisionRadius(b)
  IN IF Abs(dx) > r \/ Abs(dz) > r THEN FALSE
     ELSE dx * dx + dz * dz <= r * r

\* variant: only the bullet next to a is compared
mutualInner_NextOnly(heap, a, b, same_owner_collides) ==
  IF b = NULL THEN NULL
  ELSE LET ba == heap[a].self
           bb == heap[b].self
       IN IF /\ bb.alive
             /\ same_owner_collides \/ ba.owner # bb.owner
             /\ bulletsOverlapXZ(ba, bb)
          THEN b
          ELSE NULL

\* variant: bullets of one owner always collide
RECURSIVE mutualInner_IgnoresPolicy(_, _, _, _)
mutualInner_IgnoresPolicy(heap, a, b, same_owner_collides) ==
  IF b = NULL THEN NULL
  ELSE LET ba == heap[a].self
           bb == heap[b].self
       IN IF ~bb.alive
          THEN mutualInner_IgnoresPolicy(heap, a, heap[b].next, same_owner_collides)
          ELSE IF bulletsOverlapXZ(ba, bb) THEN b
          ELSE mutualInner_IgnoresPolicy(heap, a, heap[b].next, same_owner_collides)

\* variant: a bullet already marked dead can be paired again
RECURSIVE mutualInner_PairsDead(_, _, _, _)
mutualInner_PairsDead(heap, a, b, same_owner_collides) ==
  IF b = NULL THEN NULL
  ELSE LET ba == heap[a].self
           bb == heap[b].self
       IN IF ~same_owner_collides /\ ba.owner = bb.owner
          THEN mutualInner_PairsDead(heap, a, heap[b].next, same_owner_collides)
          ELSE IF bulletsOverlapXZ(ba, bb) THEN b
          ELSE mutualInner_PairsDead(heap, a, heap[b].next, same_owner_collides)

\* inner loop: the first later bullet that collides with a, or NULL
RECURSIVE mutualInner(_, _, _, _)
mutualInner(heap, a, b, same_owner_collides) ==
  IF b = NULL THEN NULL
  ELSE LET ba == heap[a].self
           bb == heap[b].self
       IN IF ~bb.alive THEN mutualInner(heap, a, heap[b].next, same_owner_collides)
          ELSE IF ~same_owner_collides /\ ba.owner = bb.owner
          THEN mutualInner(heap, a, heap[b].next, same_owner_collides)
          ELSE IF bulletsOverlapXZ(ba, bb) THEN b
          ELSE mutualInner(heap, a, heap[b].next, same_owner_collides)

RECURSIVE mutualOuter(_, _, _, _)
mutualOuter(heap, a, same_owner_collides, visited) ==
  IF a = NULL THEN [heap |-> heap, visited |-> visited]
  ELSE LET v == Append(visited, heap[a].idx)
       IN IF ~heap[a].self.alive
          THEN mutualOuter(heap, heap[a].next, same_owner_collides, v)
          ELSE LET b == mutualInner(heap, a, heap[a].next, same_owner_collides)
               IN IF b = NULL
                  THEN mutualOuter(heap, heap[a].next, same_owner_collides, v)
                  ELSE mutualOuter([heap EXCEPT ![a].self.alive = FALSE,
                                                ![b].self.alive = FALSE],
                                   heap[a].next, same_owner_collides, v)

bulletsResolveMutualCollisions(list, heap, same_owner_collides) ==
  LET r == mutualOuter(heap, list.head, same_owner_collides, <<>>)
      d == removeBullets(list, r.heap)
  IN [list |-> d.list, heap |-> d.heap, visited |-> r.visited]

(* ---------------------------------------------------------------------- *)
(* Hit checks (unit.c, player.c)                                           *)
(* ---------------------------------------------------------------------- *)
\* variant: the bullet that struck is left alive
RECURSIVE checkBulletHitsUnitLoop_KeepsBullet(_, _, _, _, _)
checkBulletHitsUnitLoop_KeepsBullet(st, node, box, time, who) ==
  IF node = NULL THEN st
  ELSE LET bullet == st.heap[node].self
           next == st.heap[node].next
           st0 == [st EXCEPT !.visited = Append(@, st.heap[node].idx)]
       IN IF ~bullet.alive \/ bullet.owner # BULLET_OWNER_PLAYER
          THEN checkBulletHitsUnitLoop_KeepsBullet(st0, next, box, time, who)
          ELSE IF CheckCollisionBoxes(box, getBulletBoundingBox(bullet))
          THEN LET t == st.target
                   t1 == [t EXCEPT
                            !.state.health = hitDamage(@, bullet.params.health),
                            !.state.energy = hitDamage(@, bullet.params.energy),
                            !.state.hit_time = time]
               IN checkBulletHitsUnitLoop_KeepsBullet(
                    [st0 EXCEPT !.target = t1,
                                !.stat = addHitIntoGameStat(@),
                                !.hits = Append(@, [bullet |-> st.heap[node].idx,
                                                    addr |-> node,
                                                    target |-> who,
                                                    health |-> t.state.health,
                                                    energy |-> t.state.energy])],
                    next, box, time, who)
          ELSE checkBulletHitsUnitLoop_KeepsBullet(st0, next, box, time, who)

\* the bullet loop of checkBulletHitsUnit / checkBulletHitsPlayer over one
\* target; st = [target, heap, stat, hits, visited]
RECURSIVE checkBulletHitsUnitLoop(_, _, _, _, _)
checkBulletHitsUnitLoop(st, node, box, time, who) ==
  IF node = NULL THEN st
  ELSE LET bullet == st.heap[node].self
           next == st.heap[node].next
           st0 == [st EXCEPT !.visited = Append(@, st.heap[node].idx)]
       IN IF ~bullet.alive \/ bullet.owner # BULLET_OWNER_PLAYER
          THEN checkBulletHitsUnitLoop(st0, next, box, time, who)
          ELSE IF CheckCollisionBoxes(box, getBulletBoundingBox(bullet))
          THEN LET t == st.target
                   t1 == [t EXCEPT
                            !.state.health = hitDamage(@, bullet.params.health),
                            !.state.energy = hitDamage(@, bullet.params.energy),
                            !.state.hit_time = time]
               IN checkBulletHitsUnitLoop(
                    [st0 EXCEPT !.target = t1,
                                !.heap = [@ EXCEPT ![node].self.alive = FALSE],
                                !.stat = addHitIntoGameStat(@),
                                !.hits = Append(@, [bullet |-> st.heap[node].idx,
                                                    addr |-> node,
                                                    target |-> who,
                                                    health |-> t.state.health,
                                                    energy |-> t.state.energy])],
                    next, box, time, who)
          ELSE checkBulletHitsUnitLoop(st0, next, box, time, who)

\* st = [uheap, heap, stat, hits, visited]
RECURSIVE checkBulletHitsUnitsLoop(_, _, _, _)
checkBulletHitsUnitsLoop(st, list, node, time) ==
  IF node = NULL THEN st
  ELSE LET unit == st.uheap[node].self
           r == checkBulletHitsUnitLoop(
                  [target |-> unit, heap |-> st.heap, stat |-> st.stat,
                   hits |-> st.hits, visited |-> st.visited],
                  list.head, getUnitBoundingBox(unit), time, node)
       IN checkBulletHitsUnitsLoop(
            [uheap |-> [st.uheap EXCEPT ![node].self = r.target],
             heap |-> r.heap, stat |-> r.stat, hits |-> r.hits,
             visited |-> r.visited],
            list, st.uheap[node].next, time)

checkBulletHitsUnits(ulist, uh, list, heap, s, time) ==
  LET r == checkBulletHitsUnitsLoop(
             [uheap |-> uh, heap |-> heap, stat |-> s, hits |-> <<>>,
              visited |-> <<>>], list, ulist.head, time)
      d == removeBullets(list, r.heap)
  IN [uheap |-> r.uheap, list |-> d.list, heap |-> d.heap, stat |-> r.stat,
      hits |-> r.hits, visited |-> r.visited]

\* variant: the owner of the bullet is not tested
RECURSIVE checkBulletHitsPlayerLoop_AnyOwner(_, _, _, _)
checkBulletHitsPlayerLoop_AnyOwner(st, node, box, time) ==
  IF node = NULL THEN st
  ELSE LET bullet == st.heap[node].self
           next == st.heap[node].next
           st0 == [st EXCEPT !.visited = Append(@, st.heap[node].idx)]
       IN IF ~bullet.alive
          THEN checkBulletHitsPlayerLoop_AnyOwner(st0, next, box, time)
          ELSE IF CheckCollisionBoxes(box, getBulletBoundingBox(bullet))
          THEN LET t == st.target
                   t1 == [t EXCEPT
                            !.state.health = hitDamage(@, bullet.params.health),
                            !.state.energy = hitDamage(@, bullet.params.energy),
                            !.state.hit_time = time]
               IN checkBulletHitsPlayerLoop_AnyOwner(
                    [st0 EXCEPT !.target = t1,
                                !.heap = [@ EXCEPT ![node].self.alive = FALSE],
                                !.stat = addShootIntoGameStat(@),
                                !.hits = Append(@, [bullet |-> st.heap[node].idx,
                                                    addr |-> node,
                                                    target |-> "player",
                                                    health |-> t.state.health,
                                                    energy |-> t.state.energy])],
                    next, box, time)
          ELSE checkBulletHitsPlayerLoop_AnyOwner(st0, next, box, time)

\* variant: a bullet that strikes is unlinked from its neighbours at once
RECURSIVE checkBulletHitsPlayerLoop_Unlinks(_, _, _, _)
checkBulletHitsPlayerLoop_Unlinks(st, node, box, time) ==
  IF node = NULL THEN st
  ELSE LET bullet == st.heap[node].self
           n == st.heap[node]
           next == n.next
           st0 == [st EXCEPT !.visited = Append(@, st.heap[node].idx)]
       IN IF ~bullet.alive \/ bullet.owner # BULLET_OWNER_UNIT
          THEN checkBulletHitsPlayerLoop_Unlinks(st0, next, box, time)
          ELSE IF CheckCollisionBoxes(box, getBulletBoundingBox(bullet))
          THEN LET t == st.target
                   t1 == [t EXCEPT
                            !.state.health = hitDamage(@, bullet.params.health),
                            !.state.energy = hitDamage(@, bullet.params.energy),
                            !.state.hit_time = time]
                   h0 == [st.heap EXCEPT ![node].self.alive = FALSE]
                   h1 == IF n.prev # NULL
                         THEN [h0 EXCEPT ![n.prev].next = n.next] ELSE h0
                   h2 == IF n.next # NULL
                         THEN [h1 EXCEPT ![n.next].prev = n.prev] ELSE h1
               IN checkBulletHitsPlayerLoop_Unlinks(
                    [st0 EXCEPT !.target = t1,
                                !.heap = h2,
                                !.stat = addShootIntoGameStat(@),
                                !.hits = Append(@, [bullet |-> st.heap[node].idx,
                                                    addr |-> node,
                                                    target |-> "player",
                                                    health |-> t.state.health,
                                                    energy |-> t.state.energy])],
                    next, box, time)
          ELSE checkBulletHitsPlayerLoop_Unlinks(st0, next, box, time)

RECURSIVE checkBulletHitsPlayerLoop(_, _, _, _)
checkBulletHitsPlayerLoop(st, node, box, time) ==
  IF node = NULL THEN st
  ELSE LET bullet == st.heap[node].self
           next == st.heap[node].next
           st0 == [st EXCEPT !.visited = Append(@, st.heap[node].idx)]
       IN IF ~bullet.alive \/ bullet.owner # BULLET_OWNER_UNIT
          THEN checkBulletHitsPlayerLoop(st0, next, box, time)
          ELSE IF CheckCollisionBoxes(box, getBulletBoundingBox(bullet))
          THEN LET t == st.target
                   t1 == [t EXCEPT
                            !.state.health = hitDamage(@, bullet.params.health),
                            !.state.energy = hitDamage(@, bullet.params.energy),
                            !.state.hit_time = time]
               IN checkBulletHitsPlayerLoop(
                    [st0 EXCEPT !.target = t1,
                                !.heap = [@ EXCEPT ![node].self.alive = FALSE],
                                !.stat = addShootIntoGameStat(@),
                                !.hits = Append(@, [bullet |-> st.heap[node].idx,
                                                    addr |-> node,
                                                    target |-> "player",
                                                    health |-> t.state.health,
                                                    energy |-> t.state.energy])],
                    next, box, time)
          ELSE checkBulletHitsPlayerLoop(st0, next, box, time)

checkBulletHitsPlayer(p, list, heap, s, time) ==
  LET r == checkBulletHitsPlayerLoop(
             [target |-> p, heap |-> heap, stat |-> s, hits |-> <<>>,
              visited |-> <<>>], list.head, getPlayerBoundingBox(p), time)
      d == removeBullets(list, r.heap)
  IN [player |-> r.target, list |-> d.list, heap |-> d.heap, stat |-> r.stat,
      hits |-> r.hits, visited |-> r.visited]

(* ---------------------------------------------------------------------- *)
(* Bounds of the game runs                                                 *)
(* ---------------------------------------------------------------------- *)
StartLevel == 33         \* level the explored run of the game starts at
UnitCount == 2           \* units asked of newUnitList (20 in newGame)
GameMaxCol == 1          \* max_col of the formation (10 in newGame)
FrameMs == 100           \* GetFrameTime() of every frame, in milliseconds
ZOffsetStep == 15000     \* approach step of drawUnit per frame
MaxTime == 9500          \* frames are explored until GetTime() reaches this

GAME_UNITS_Z_OFFSET == 40000
FIRE_LINE_FACTOR == 10000
GAME_OVER_DELAY == 5000
FALL_SPEED_Y == 40
FALL_SPEED_Z == 50
FALL_SWAY == 2500
PLAYER_MAX_X == 40000
PLAYER_MAX_Z == 0 - 30000
PLAYER_OFFSET_Z == 30000

FALL_SWAY_RATE == 5
PI == 3142
MaxKeyChanges == 1       \* times the SPACE key is pressed or released
KeyStep == 500           \* the key changes only at multiples of this time

\* sinf over milliradians, in thousandths (Bhaskara's approximation)
sinf(x) ==
  LET t == x % (2 * PI)
      h == IF t > PI THEN t - PI ELSE t
      p == h * (PI - h)
      s == (16 * p) \div ((5 * PI * PI - 4 * p) \div Milli)
  IN IF t > PI THEN 0 - s ELSE s

\* malloc in a game run: the lowest free address, NULL when none is left
mallocFirstFit(heap, addrs) ==
  LET free == addrs \ DOMAIN heap
  IN IF free = {} THEN NULL
     ELSE CHOOSE a \in free : \A b \in free : a <= b

(* ---------------------------------------------------------------------- *)
(* Formation, fire selection and unit drawing (unit.c, player.c)           *)
(* ---------------------------------------------------------------------- *)
RECURSIVE newUnitListLoop(_, _, _, _, _, _)
newUnitListLoop(list, heap, i, max_col, mid_x, z_offset) ==
  IF i < 0 THEN [list |-> list, heap |-> heap]
  ELSE LET r == insertToUnitList(list, heap, newUnit, max_col, mid_x,
                                 z_offset, mallocFirstFit(heap, UnitAddr))
       IN newUnitListLoop(r.list, r.heap, i - 1, max_col, mid_x, z_offset)

\* list_ok: whether malloc(sizeof(UnitList)) succeeds
newUnitList(count, max_col, z_offset, heap, list_ok) ==
  IF ~list_ok THEN [ok |-> FALSE, list |-> emptyUnitList, heap |-> heap]
  ELSE LET unit_full_width == DEFAULT_UNIT_WIDTH + UNIT_SPACE_HORIZONTAL
           mid_x == (unit_full_width * max_col) \div 2 - unit_full_width \div 2
           r == newUnitListLoop(emptyUnitList, heap, count - 1, max_col,
                                mid_x, z_offset)
       IN [ok |-> TRUE, list |-> r.list, heap |-> r.heap]

newPlayerPosition(max_x, max_z, offset_z) ==
  [x |-> 0, y |-> 0, z |-> 0, max_x |-> max_x, max_z |-> max_z,
   offset_z |-> offset_z]

newPlayer(max_x, max_z, offset_z) ==
  [state |-> newUnitState, position |-> newPlayerPosition(max_x, max_z, offset_z)]

isPlayerOnFireLine(enemy, p, factor) ==
  /\ p.position.x > enemy.position.x - factor
  /\ p.position.x < enemy.position.x + factor

\* variant: only the head of the pool is compared
isUnitBlocked_HeadOnly(heap, unit, node, i, length) ==
  IF i >= length \/ node = NULL THEN FALSE
  ELSE /\ unit.position.col = heap[node].self.position.col
       /\ unit.position.ln < heap[node].self.position.ln

\* variant: units on an earlier line block the fire
RECURSIVE isUnitBlocked_ByRear(_, _, _, _, _)
isUnitBlocked_ByRear(heap, unit, node, i, length) ==
  IF i >= length \/ node = NULL THEN FALSE
  ELSE IF /\ unit.position.col = heap[node].self.position.col
          /\ unit.position.ln > heap[node].self.position.ln
       THEN TRUE
       ELSE isUnitBlocked_ByRear(heap, unit, heap[node].next, i + 1, length)

\* the loop of isUnitAbleToFire: TRUE when a unit of the same column stands
\* on a later line
RECURSIVE isUnitBlocked(_, _, _, _, _)
isUnitBlocked(heap, unit, node, i, length) ==
  IF i >= length \/ node = NULL THEN FALSE
  ELSE IF /\ unit.position.col = heap[node].self.position.col
          /\ unit.position.ln < heap[node].self.position.ln
       THEN TRUE
       ELSE isUnitBlocked(heap, unit, heap[node].next, i + 1, length)

\* returns the verdict and the unit with its in_front latch
isUnitAbleToFire(list, heap, unit) ==
  IF unit.position.in_front THEN [able |-> TRUE, unit |-> unit]
  ELSE IF isUnitBlocked(heap, unit, list.head, 0, list.length)
       THEN [able |-> FALSE, unit |-> unit]
       ELSE [able |-> TRUE, unit |-> [unit EXCEPT !.position.in_front = TRUE]]

\* params: the level's unit damage as stored in the uint8_t fields
spawnUnitShoot(list, heap, unit, target_x, target_z, lvl, time, params) ==
  IF time - unit.state.last_shoot > lvl.units.bullet_delay_spawn
  THEN LET bullet == newBulletAimedAt(
                       newBulletPosition(unit.position.x, unit.position.y,
                                         unit.position.z + unit.position.z_offset),
                       params, BULLET_OWNER_UNIT, target_x, target_z,
                       lvl.units.bullet_acceleration,
                       lvl.units.bullet_init_speed)
           r == insertBulletIntoList(list, heap, bullet,
                                     mallocFirstFit(heap, BulletAddr))
       IN [list |-> r.list, heap |-> r.heap,
           unit |-> [unit EXCEPT !.state.last_shoot = time]]
  ELSE [list |-> list, heap |-> heap, unit |-> unit]

\* st = [uheap, list, heap]
RECURSIVE selectUnitsToFireLoop(_, _, _, _, _, _, _, _, _)
selectUnitsToFireLoop(st, ulist, node, i, p, lvl, factor, time, params) ==
  IF i >= ulist.length \/ node = NULL THEN st
  ELSE LET unit == st.uheap[node].self
           next == st.uheap[node].next
       IN IF ~isPlayerOnFireLine(unit, p, factor)
          THEN selectUnitsToFireLoop(st, ulist, next, i + 1, p, lvl, factor,
                                     time, params)
          ELSE LET a == isUnitAbleToFire(ulist, st.uheap, unit)
               IN IF ~a.able
                  THEN selectUnitsToFireLoop(st, ulist, next, i + 1, p, lvl,
                                             factor, time, params)
                  ELSE LET s == spawnUnitShoot(st.list, st.heap, a.unit,
                                               p.position.x,
                                               p.position.z + p.position.offset_z,
                                               lvl, time, params)
                       IN selectUnitsToFireLoop(
                            [uheap |-> [st.uheap EXCEPT ![node].self = s.unit],
                             list |-> s.list, heap |-> s.heap],
                            ulist, next, i + 1, p, lvl, factor, time, params)

selectUnitsToFire(ulist, uh, list, heap, p, lvl, factor, time, params) ==
  selectUnitsToFireLoop([uheap |-> uh, list |-> list, heap |-> heap], ulist,
                        ulist.head, 0, p, lvl, factor, time, params)

\* dt and time in milliseconds
updateDestroyedUnitFall(unit, dt, time) ==
  IF unit.state.health > 0 THEN unit
  ELSE LET y == unit.position.y - FALL_SPEED_Y * dt
           z == unit.position.z - FALL_SPEED_Z * dt
           sway == Sgn(sinf(time * FALL_SWAY_RATE))
                     * ((FALL_SWAY * Abs(sinf(time * FALL_SWAY_RATE))) \div Milli)
           u1 == [unit EXCEPT !.position.y = y, !.position.z = z,
                              !.action.x = sway]
       IN IF Abs(z + u1.position.z_offset + u1.action.z)
               > Abs(u1.position.z_max_area)
          THEN [u1 EXCEPT !.visible = FALSE]
          ELSE u1

\* the approach of the formation, then the fall of a destroyed unit; the
\* oscillation of a living unit (iterateMovementAction) is left out
drawUnit(unit, dt, time) ==
  LET zo == unit.position.z_offset
      zo1 == IF zo < 0
             THEN (IF zo + ZOffsetStep > 0 THEN 0 ELSE zo + ZOffsetStep)
             ELSE zo
      u1 == [unit EXCEPT !.position.z_offset = zo1]
  IN IF u1.state.health = 0 THEN updateDestroyedUnitFall(u1, dt, time) ELSE u1

RECURSIVE drawUnitsLoop(_, _, _, _, _, _)
drawUnitsLoop(heap, node, i, length, dt, time) ==
  IF i >= length \/ node = NULL THEN heap
  ELSE drawUnitsLoop([heap EXCEPT ![node].self = drawUnit(@, dt, time)],
                     heap[node].next, i + 1, length, dt, time)

drawUnits(list, heap, dt, time) ==
  removeUnits(list, drawUnitsLoop(heap, list.head, 0, list.length, dt, time))

\* variant: the player fires whenever the key is down
updatePlayer_NoCooldown(p, list, heap, lvl, time, space, params) ==
  IF space
  THEN LET bullet == newBullet(BULLET_MOVEMENT_DIRECTION_UP,
                               newBulletPosition(p.position.x, p.position.y,
                                                 p.position.z + p.position.offset_z),
                               params, BULLET_OWNER_PLAYER,
                               lvl.player.bullet_acceleration,
                               lvl.player.bullet_init_speed)
           r == insertBulletIntoList(list, heap, bullet,
                                     mallocFirstFit(heap, BulletAddr))
       IN [list |-> [r.list EXCEPT !.last_spawn = time], heap |-> r.heap]
  ELSE [list |-> list, heap |-> heap]

\* the spawn part of updatePlayer; no direction key is held and the ship is
\* level, so position and tilt stay as they are
updatePlayer(p, list, heap, lvl, time, space, params) ==
  IF space /\ time - list.last_spawn > lvl.player.bullet_delay_spawn
  THEN LET bullet == newBullet(BULLET_MOVEMENT_DIRECTION_UP,
                               newBulletPosition(p.position.x, p.position.y,
                                                 p.position.z + p.position.offset_z),
                               params, BULLET_OWNER_PLAYER,
                               lvl.player.bullet_acceleration,
                               lvl.player.bullet_init_speed)
           r == insertBulletIntoList(list, heap, bullet,
                                     mallocFirstFit(heap, BulletAddr))
       IN [list |-> [r.list EXCEPT !.last_spawn = time], heap |-> r.heap]
  ELSE [list |-> list, heap |-> heap]

drawPlayer(p, list, heap, lvl, time, space, params) ==
  updatePlayer(p, list, heap, lvl, time, space, params)

(* ---------------------------------------------------------------------- *)
(* Level changes (game.c)                                                  *)
(* ---------------------------------------------------------------------- *)
nextGameLevel(lvl, ulist, heap, p, list_ok) ==
  LET l1 == goToNextLevel(lvl)
      r == newUnitList(UnitCount, GameMaxCol, GAME_UNITS_Z_OFFSET, heap, list_ok)
  IN IF ~r.ok
     THEN [ok |-> FALSE, level |-> l1, units |-> ulist, uheap |-> heap,
           player |-> p]
     ELSE [ok |-> TRUE, level |-> l1, units |-> r.list, uheap |-> r.heap,
           player |-> [p EXCEPT !.state.health = 100, !.state.energy = 100]]

dropGameLevel(lvl, ulist, heap, p, s, list_ok) ==
  LET l1 == getFirstLevel
      r == newUnitList(UnitCount, GameMaxCol, GAME_UNITS_Z_OFFSET, heap, list_ok)
  IN IF ~r.ok
     THEN [level |-> l1, units |-> ulist, uheap |-> heap, player |-> p,
           stat |-> s]
     ELSE [level |-> l1, units |-> r.list, uheap |-> r.heap,
           player |-> [p EXCEPT !.state.health = 100, !.state.energy = 100],
           stat |-> newGameStat]

RECURSIVE LevelAt(_)
LevelAt(n) == IF n = 0 THEN getFirstLevel ELSE goToNextLevel(LevelAt(n - 1))

(* ---------------------------------------------------------------------- *)
(* History kept for the properties                                         *)
(* ---------------------------------------------------------------------- *)
Flags(heap, s) == [i \in DOMAIN s |-> heap[s[i]].self.alive]
Visibles(heap, s) == [i \in DOMAIN s |-> heap[s[i]].self.visible]
Owners(heap, s) == [i \in DOMAIN s |-> heap[s[i]].self.owner]

Event(op, ok, pre, hits, visited) ==
  [op |-> op, ok |-> ok, pre |-> pre, hits |-> hits, visited |-> visited]

NoEvent == Event("init", TRUE, <<>>, <<>>, <<>>)

IdxOf(heap) == {heap[a].idx : a \in DOMAIN heap}

\* freed: spawn indexes whose node has been freed; hit: spawn indexes of
\* the bullets that have struck a target
NoHistory == [freed |-> {}, hit |-> {}]

HistoryAfter(h, heap_before, heap_after, hits) ==
  [freed |-> h.freed \cup (IdxOf(heap_before) \ IdxOf(heap_after)),
   hit |-> h.hit \cup {hits[i].bullet : i \in DOMAIN hits}]

Idle == [pc |-> "idle", over |-> FALSE, over_tm |-> 0]

NoKeys == [space |-> FALSE, changes |-> 0]

(* ---------------------------------------------------------------------- *)
(* The pools on their own: spawns, flagging and sweeps in any order        *)
(* ---------------------------------------------------------------------- *)
PoolMidX ==
  ((DEFAULT_UNIT_WIDTH + UNIT_SPACE_HORIZONTAL) * PoolMaxCol) \div 2
    - (DEFAULT_UNIT_WIDTH + UNIT_SPACE_HORIZONTAL) \div 2

PoolBullet(owner) ==
  newBullet(BULLET_MOVEMENT_DIRECTION_UP, newBulletPosition(0, 0, 0),
            newBulletParameters(INIT_LEVEL_PLAYER_DAMAGE_LIFE \div Milli,
                                INIT_LEVEL_PLAYER_DAMAGE_ENERGY \div Milli),
            owner, INIT_LEVEL_PLAYER_BULLET_ACCELERATION,
            INIT_LEVEL_PLAYER_BULLET_INIT_SPEED)

InitPool ==
  /\ bullets = newBulletList(0)
  /\ bheap = <<>>
  /\ units = emptyUnitList
  /\ uheap = <<>>
  /\ player = newPlayer(PLAYER_MAX_X, PLAYER_MAX_Z, PLAYER_OFFSET_Z)
  /\ stat = newGameStat
  /\ level = getFirstLevel
  /\ run = Idle
  /\ now = 0
  /\ keys = NoKeys
  /\ hist = NoHistory
  /\ ev = NoEvent
  /\ mode \in {"bullets", "units"}
  /\ arg = <<>>
  /\ ret = <<>>

PoolInsertBullet ==
  /\ mode = "bullets"
  /\ bullets.idx < MaxIdx
  /\ \E owner \in {BULLET_OWNER_PLAYER, BULLET_OWNER_UNIT} :
       \E addr \in MallocChoices(bheap, BulletAddr) :
         LET r == insertBulletIntoList(bullets, bheap, PoolBullet(owner), addr)
         IN /\ bullets' = r.list
            /\ bheap' = r.heap
            /\ ev' = Event("insertBulletIntoList", addr # NULL,
                           Flags(bheap, BulletAddrs(bullets, bheap)),
                           <<>>, <<>>)
  /\ UNCHANGED <<units, uheap, mode>>
  /\ UNCHANGED <<gameVars, fnVars>>

\* a traversal flags a bullet dead (updateBullet, the hit checks)
PoolMarkBulletDead ==
  /\ mode = "bullets"
  /\ \E a \in DOMAIN bheap :
       /\ bheap[a].self.alive
       /\ bheap' = [bheap EXCEPT ![a].self.alive = FALSE]
  /\ ev' = Event("markBulletDead", TRUE, <<>>, <<>>, <<>>)
  /\ UNCHANGED <<bullets, units, uheap, mode>>
  /\ UNCHANGED <<gameVars, fnVars>>

PoolRemoveBullets ==
  /\ mode = "bullets"
  /\ LET r == removeBullets(bullets, bheap)
     IN /\ bullets' = r.list
        /\ bheap' = r.heap
  /\ ev' = Event("removeBullets", TRUE,
                 Flags(bheap, BulletAddrs(bullets, bheap)), <<>>, <<>>)
  /\ UNCHANGED <<units, uheap, mode>>
  /\ UNCHANGED <<gameVars, fnVars>>

PoolInsertUnit ==
  /\ mode = "units"
  /\ IF units.tail = NULL THEN TRUE
     ELSE uheap[units.tail].self.position.ln * PoolMaxCol
            + uheap[units.tail].self.position.col
            < PoolMaxCol * PoolMaxLn - 1
  /\ \E addr \in MallocChoices(uheap, UnitAddr) :
       LET r == insertToUnitList(units, uheap, newUnit, PoolMaxCol, PoolMidX,
                                 GAME_UNITS_Z_OFFSET, addr)
       IN /\ units' = r.list
          /\ uheap' = r.heap
          /\ ev' = Event("insertToUnitList", addr # NULL,
                         Visibles(uheap, UnitAddrs(units, uheap)), <<>>, <<>>)
  /\ UNCHANGED <<bullets, bheap, mode>>
  /\ UNCHANGED <<gameVars, fnVars>>

\* updateDestroyedUnitFall marks a fallen unit invisible
PoolMarkUnitInvisible ==
  /\ mode = "units"
  /\ \E a \in DOMAIN uheap :
       /\ uheap[a].self.visible
       /\ uheap' = [uheap EXCEPT ![a].self.visible = FALSE]
  /\ ev' = Event("markUnitInvisible", TRUE, <<>>, <<>>, <<>>)
  /\ UNCHANGED <<bullets, bheap, units, mode>>
  /\ UNCHANGED <<gameVars, fnVars>>

PoolRemoveUnits ==
  /\ mode = "units"
  /\ LET r == removeUnits(units, uheap)
     IN /\ units' = r.list
        /\ uheap' = r.heap
  /\ ev' = Event("removeUnits", TRUE,
                 Visibles(uheap, UnitAddrs(units, uheap)), <<>>, <<>>)
  /\ UNCHANGED <<bullets, bheap, mode>>
  /\ UNCHANGED <<gameVars, fnVars>>

NextPool ==
  \/ PoolInsertBullet
  \/ PoolMarkBulletDead
  \/ PoolRemoveBullets
  \/ PoolInsertUnit
  \/ PoolMarkUnitInvisible
  \/ PoolRemoveUnits

SpecPool == InitPool /\ [][NextPool]_vars

(* ---------------------------------------------------------------------- *)
(* The damage arithmetic on its own, over every pair of 8-bit values       *)
(* ---------------------------------------------------------------------- *)
NoResult == 0 - 1

InitDamage ==
  /\ bullets = newBulletList(0)
  /\ bheap = <<>>
  /\ units = emptyUnitList
  /\ uheap = <<>>
  /\ player = newPlayer(PLAYER_MAX_X, PLAYER_MAX_Z, PLAYER_OFFSET_Z)
  /\ stat = newGameStat
  /\ level = getFirstLevel
  /\ run = Idle
  /\ now = 0
  /\ keys = NoKeys
  /\ hist = NoHistory
  /\ ev = NoEvent
  /\ mode = "damage"
  /\ arg \in [cur : 0..(UINT8 - 1), dmg : 0..(UINT8 - 1)]
  /\ ret = NoResult

\* the update of one stat by one hit
ApplyHitDamage ==
  /\ mode = "damage"
  /\ ret = NoResult
  /\ ret' = hitDamage(arg.cur, arg.dmg)
  /\ ev' = Event("hitDamage", TRUE, <<>>, <<>>, <<>>)
  /\ UNCHANGED <<poolVars, gameVars, mode, arg>>

NextDamage == ApplyHitDamage

SpecDamage == InitDamage /\ [][NextDamage]_vars

(* ---------------------------------------------------------------------- *)
(* The frame loop of runGame, one action per call of the loop body         *)
(* ---------------------------------------------------------------------- *)
StartTime == 1000        \* GetTime() when the explored run starts

UnitDamage ==
  {newBulletParameters(h, e) : h \in FloatToUint8(level.units.damage_life),
                               e \in FloatToUint8(level.units.damage_energy)}

PlayerDamage ==
  {newBulletParameters(h, e) : h \in FloatToUint8(level.player.damage_life),
                               e \in FloatToUint8(level.player.damage_energy)}

\* the game as nextGameLevel leaves it on entering level StartLevel
InitGame ==
  /\ bullets = newBulletList(0)
  /\ bheap = <<>>
  /\ LET r == newUnitList(UnitCount, GameMaxCol, GAME_UNITS_Z_OFFSET, <<>>, TRUE)
     IN /\ units = r.list
        /\ uheap = r.heap
  /\ player = newPlayer(PLAYER_MAX_X, PLAYER_MAX_Z, PLAYER_OFFSET_Z)
  /\ stat = newGameStat
  /\ level = LevelAt(StartLevel)
  /\ run = [pc |-> "over", over |-> FALSE, over_tm |-> StartTime]
  /\ now = StartTime
  /\ keys \in {[space |-> s, changes |-> 0] : s \in BOOLEAN}
  /\ hist = NoHistory
  /\ ev = NoEvent
  /\ mode = "game"
  /\ arg = <<>>
  /\ ret = <<>>

\* if (player->state.health <= 0 && !over) { over_tm = GetTime(); over = true; }
RunGameOver ==
  /\ mode = "game"
  /\ run.pc = "over"
  /\ run' = IF player.state.health <= 0 /\ ~run.over
            THEN [pc |-> "drop", over |-> TRUE, over_tm |-> now]
            ELSE [run EXCEPT !.pc = "drop"]
  /\ ev' = Event("over", TRUE, <<>>, <<>>, <<>>)
  /\ UNCHANGED <<poolVars, player, stat, level, now, keys, hist, mode, fnVars>>

\* if (over) if (GetTime() - over_tm > 5.0) { over = false; dropGameLevel(); }
RunGameDrop ==
  /\ mode = "game"
  /\ run.pc = "drop"
  /\ IF run.over /\ now - run.over_tm > GAME_OVER_DELAY
     THEN \E list_ok \in BOOLEAN :
            LET r == dropGameLevel(level, units, uheap, player, stat, list_ok)
            IN /\ level' = r.level
               /\ units' = r.units
               /\ uheap' = r.uheap
               /\ player' = r.player
               /\ stat' = r.stat
               /\ run' = [run EXCEPT !.pc = "next", !.over = FALSE]
               /\ ev' = Event("dropGameLevel", list_ok, <<>>, <<>>, <<>>)
     ELSE /\ run' = [run EXCEPT !.pc = "next"]
          /\ ev' = Event("drop", TRUE, <<>>, <<>>, <<>>)
          /\ UNCHANGED <<level, units, uheap, player, stat>>
  /\ UNCHANGED <<bullets, bheap, now, keys, hist, mode, fnVars>>

\* variant: the result of nextGameLevel is not tested
RunGameNext_IgnoresFailure ==
  /\ mode = "game"
  /\ run.pc = "next"
  /\ IF units.head = NULL
     THEN \E list_ok \in BOOLEAN :
            LET r == nextGameLevel(level, units, uheap, player, list_ok)
            IN /\ level' = r.level
               /\ units' = r.units
               /\ uheap' = r.uheap
               /\ player' = r.player
               /\ run' = [run EXCEPT !.pc = IF run.over THEN "drawUnits"
                                            ELSE "checkBulletHitsUnits"]
               /\ ev' = Event("nextGameLevel", r.ok, <<>>, <<>>, <<>>)
     ELSE /\ run' = [run EXCEPT !.pc = IF run.over THEN "drawUnits"
                                       ELSE "checkBulletHitsUnits"]
          /\ ev' = Event("next", TRUE, <<>>, <<>>, <<>>)
          /\ UNCHANGED <<level, units, uheap, player>>
  /\ UNCHANGED <<bullets, bheap, stat, now, keys, hist, mode, fnVars>>

\* if (!enemies->head) if (!nextGameLevel(game)) return;
RunGameNext ==
  /\ mode = "game"
  /\ run.pc = "next"
  /\ IF units.head = NULL
     THEN \E list_ok \in BOOLEAN :
            LET r == nextGameLevel(level, units, uheap, player, list_ok)
            IN /\ level' = r.level
               /\ units' = r.units
               /\ uheap' = r.uheap
               /\ player' = r.player
               /\ run' = [run EXCEPT !.pc = IF ~r.ok THEN "return"
                                            ELSE IF run.over THEN "drawUnits"
                                            ELSE "checkBulletHitsUnits"]
               /\ ev' = Event("nextGameLevel", r.ok, <<>>, <<>>, <<>>)
     ELSE /\ run' = [run EXCEPT !.pc = IF run.over THEN "drawUnits"
                                       ELSE "checkBulletHitsUnits"]
          /\ ev' = Event("next", TRUE, <<>>, <<>>, <<>>)
          /\ UNCHANGED <<level, units, uheap, player>>
  /\ UNCHANGED <<bullets, bheap, stat, now, keys, hist, mode, fnVars>>

CheckBulletHitsUnits ==
  /\ mode = "game"
  /\ run.pc = "checkBulletHitsUnits"
  /\ LET r == checkBulletHitsUnits(units, uheap, bullets, bheap, stat, now)
     IN /\ uheap' = r.uheap
        /\ bullets' = r.list
        /\ bheap' = r.heap
        /\ stat' = r.stat
        /\ hist' = HistoryAfter(hist, bheap, r.heap, r.hits)
        /\ ev' = Event("checkBulletHitsUnits", TRUE, <<>>, r.hits, r.visited)
  /\ run' = [run EXCEPT !.pc = "checkBulletHitsPlayer"]
  /\ UNCHANGED <<units, player, level, now, keys, mode, fnVars>>

CheckBulletHitsPlayer ==
  /\ mode = "game"
  /\ run.pc = "checkBulletHitsPlayer"
  /\ LET r == checkBulletHitsPlayer(player, bullets, bheap, stat, now)
     IN /\ player' = r.player
        /\ bullets' = r.list
        /\ bheap' = r.heap
        /\ stat' = r.stat
        /\ hist' = HistoryAfter(hist, bheap, r.heap, r.hits)
        /\ ev' = Event("checkBulletHitsPlayer", TRUE, <<>>, r.hits, r.visited)
  /\ run' = [run EXCEPT !.pc = "bulletsResolveMutualCollisions"]
  /\ UNCHANGED <<units, uheap, level, now, keys, mode, fnVars>>

BulletsResolveMutualCollisions ==
  /\ mode = "game"
  /\ run.pc = "bulletsResolveMutualCollisions"
  /\ LET r == bulletsResolveMutualCollisions(bullets, bheap, FALSE)
     IN /\ bullets' = r.list
        /\ bheap' = r.heap
        /\ hist' = HistoryAfter(hist, bheap, r.heap, <<>>)
        /\ ev' = Event("bulletsResolveMutualCollisions", TRUE, <<>>, <<>>,
                       r.visited)
  /\ run' = [run EXCEPT !.pc = "selectUnitsToFire"]
  /\ UNCHANGED <<units, uheap, player, stat, level, now, keys, mode, fnVars>>

SelectUnitsToFire ==
  /\ mode = "game"
  /\ run.pc = "selectUnitsToFire"
  /\ \E params \in UnitDamage :
       LET r == selectUnitsToFire(units, uheap, bullets, bheap, player, level,
                                  FIRE_LINE_FACTOR, now, params)
       IN /\ uheap' = r.uheap
          /\ bullets' = r.list
          /\ bheap' = r.heap
          /\ ev' = Event("selectUnitsToFire", TRUE, <<>>, <<>>, <<>>)
  /\ run' = [run EXCEPT !.pc = "drawUnits"]
  /\ UNCHANGED <<units, player, stat, level, now, keys, hist, mode, fnVars>>

DrawUnits ==
  /\ mode = "game"
  /\ run.pc = "drawUnits"
  /\ LET r == drawUnits(units, uheap, FrameMs, now)
     IN /\ units' = r.list
        /\ uheap' = r.heap
        /\ ev' = Event("drawUnits", TRUE,
                       Visibles(uheap, UnitAddrs(units, uheap)), <<>>, <<>>)
  /\ run' = [run EXCEPT !.pc = IF run.over THEN "EndDrawing" ELSE "drawPlayer"]
  /\ UNCHANGED <<bullets, bheap, player, stat, level, now, keys, hist, mode,
                 fnVars>>

\* space: IsKeyDown(KEY_SPACE) of this frame
DrawPlayer ==
  /\ mode = "game"
  /\ run.pc = "drawPlayer"
  /\ \E space \in BOOLEAN :
       /\ space # keys.space => /\ keys.changes < MaxKeyChanges
                                /\ (now - StartTime) % KeyStep = 0
       /\ keys' = IF space # keys.space
                  THEN [space |-> space, changes |-> keys.changes + 1]
                  ELSE keys
       /\ \E params \in PlayerDamage :
            LET r == drawPlayer(player, bullets, bheap, level, now, space, params)
            IN /\ bullets' = r.list
               /\ bheap' = r.heap
               /\ ev' = Event("drawPlayer", space, <<>>, <<>>, <<>>)
  /\ run' = [run EXCEPT !.pc = "drawBullets"]
  /\ UNCHANGED <<units, uheap, player, stat, level, now, hist, mode, fnVars>>

DrawBullets ==
  /\ mode = "game"
  /\ run.pc = "drawBullets"
  /\ LET r == drawBullets(bullets, bheap, stat)
     IN /\ bullets' = r.list
        /\ bheap' = r.heap
        /\ stat' = r.stat
        /\ hist' = HistoryAfter(hist, bheap, r.heap, <<>>)
        /\ ev' = Event("drawBullets", TRUE,
                       Owners(bheap, BulletAddrs(bullets, bheap)), <<>>,
                       r.visited)
  /\ run' = [run EXCEPT !.pc = "EndDrawing"]
  /\ UNCHANGED <<units, uheap, player, level, now, keys, mode, fnVars>>

\* the frame ends; the next one starts FrameMs later
EndDrawing ==
  /\ mode = "game"
  /\ run.pc = "EndDrawing"
  /\ now < StartTime + MaxTime
  /\ now' = now + FrameMs
  /\ run' = [run EXCEPT !.pc = "over"]
  /\ ev' = Event("EndDrawing", TRUE, <<>>, <<>>, <<>>)
  /\ UNCHANGED <<poolVars, player, stat, level, keys, hist, mode, fnVars>>

NextGame ==
  \/ RunGameOver
  \/ RunGameDrop
  \/ RunGameNext
  \/ CheckBulletHitsUnits
  \/ CheckBulletHitsPlayer
  \/ BulletsResolveMutualCollisions
  \/ SelectUnitsToFire
  \/ DrawUnits
  \/ DrawPlayer
  \/ DrawBullets
  \/ EndDrawing

SpecGame == InitGame /\ [][NextGame]_vars

(* ---------------------------------------------------------------------- *)
(* Properties of the pools                                                 *)
(* ---------------------------------------------------------------------- *)
\* head, tail, prev and next describe exactly the sequence s, and the heap
\* holds no other node
WellLinked(list, heap, s) ==
  /\ list.head = (IF s = <<>> THEN NULL ELSE s[1])
  /\ list.tail = (IF s = <<>> THEN NULL ELSE s[Len(s)])
  /\ \A i \in DOMAIN s :
       /\ heap[s[i]].prev = (IF i = 1 THEN NULL ELSE s[i - 1])
       /\ heap[s[i]].next = (IF i = Len(s) THEN NULL ELSE s[i + 1])
  /\ DOMAIN heap = Range(s)

\* C1: in every state reached by spawns (failed ones included) and sweeps,
\* each pool's length equals the number of nodes linked from head.
C1_LengthIsNodeCount ==
  /\ bullets.length = Len(BulletAddrs(bullets, bheap))
  /\ units.length = Len(UnitAddrs(units, uheap))

\* a sweep removed two of three bullets after an allocation had failed
C1_Witness ==
  /\ ev.op = "removeBullets"
  /\ Len(ev.pre) = 3
  /\ bullets.length = 1
  /\ bullets.idx = 4

C4_InsertAppendsAtTail ==
  [][ (ev'.op = "insertBulletIntoList" /\ ev'.ok) =>
        LET pre == BulletAddrs(bullets, bheap)
            post == BulletAddrs(bullets', bheap')
            new == bullets'.tail
        IN /\ post = Append(pre, new)
           /\ new \notin Range(pre)
           /\ WellLinked(bullets', bheap', post)
           /\ bheap'[new].prev = bullets.tail
           /\ bheap'[new].next = NULL
           /\ (bullets.tail # NULL => bheap'[bullets.tail].next = new)
           /\ bullets'.head = (IF bullets.head = NULL THEN new ELSE bullets.head)
           /\ bullets'.length = bullets.length + 1
           /\ bheap'[new].idx = bullets.idx + 1
           /\ \A a \in Range(pre) : /\ bheap'[a].self = bheap[a].self
                                    /\ bheap'[a].idx = bheap[a].idx
                                    /\ bheap'[a].prev = bheap[a].prev
    ]_vars

\* a bullet was appended behind two linked bullets
C4_Witness ==
  /\ ev.op = "insertBulletIntoList"
  /\ ev.ok
  /\ Len(ev.pre) = 2
  /\ bullets.length = 3

\* the idx values along the list
BulletIdxs(list, heap) ==
  LET s == BulletAddrs(list, heap) IN [i \in DOMAIN s |-> heap[s[i]].idx]

StrictlyIncreasing(s) == \A i, j \in DOMAIN s : i < j => s[i] < s[j]

\* C5: the idx values from head to tail strictly increase, and a newly
\* spawned bullet gets an idx above every idx assigned before.
C5_SpawnIndexIncreases ==
  [][ /\ StrictlyIncreasing(BulletIdxs(bullets', bheap'))
      /\ \A a \in DOMAIN bheap' : bheap'[a].idx <= bullets'.idx
      /\ bullets'.idx >= bullets.idx
      /\ (ev'.op = "insertBulletIntoList" /\ ev'.ok) =>
            bheap'[bullets'.tail].idx > bullets.idx
    ]_vars

\* a bullet spawned after a sweep had removed an older one
C5_Witness ==
  /\ ev.op = "insertBulletIntoList"
  /\ ev.ok
  /\ bullets.length = 2
  /\ BulletIdxs(bullets, bheap) = <<2, 4>>

\* C6: a spawn whose allocation fails leaves the pool exactly as it was.
C6_FailedSpawnIsNoOp ==
  [][ (ev'.op \in {"insertBulletIntoList", "insertToUnitList"} /\ ~ev'.ok) =>
        /\ bullets' = bullets
        /\ bheap' = bheap
        /\ units' = units
        /\ uheap' = uheap
    ]_vars

(* ---------------------------------------------------------------------- *)
(* Properties of the damage arithmetic                                     *)
(* ---------------------------------------------------------------------- *)
Max(a, b) == IF a > b THEN a ELSE b

\* C8: for every health or energy value h and damage d in 0..255 the value
\* after a hit is max(0, h - d): exactly 0 when d >= h, never negative and
\* never wrapped modulo 256.
C8_SaturatingSubtraction ==
  ret # NoResult =>
    /\ ret = Max(0, arg.cur - arg.dmg)
    /\ ret \in 0..(UINT8 - 1)
    /\ (arg.dmg >= arg.cur => ret = 0)

\* a hit whose damage exceeds what is left
C8_Witness ==
  /\ ev.op = "hitDamage"
  /\ arg = [cur |-> 20, dmg |-> 100]
  /\ ret = 0

(* ---------------------------------------------------------------------- *)
(* Properties of the frame loop                                            *)
(* ---------------------------------------------------------------------- *)
\* the operations that end with removeBullets
SweepOps ==
  {"checkBulletHitsUnits", "checkBulletHitsPlayer",
   "bulletsResolveMutualCollisions", "drawBullets"}

\* C2: after an operation has swept the pool no dead bullet is linked, and
\* a bullet whose node was freed is never linked again and never visited by
\* a later traversal.
C2_DeadBulletsAreGone ==
  [][ /\ ev'.op \in SweepOps =>
           /\ \A a \in DOMAIN bheap' : bheap'[a].self.alive
           /\ DOMAIN bheap' = Range(BulletAddrs(bullets', bheap'))
           /\ \A a \in DOMAIN bheap :
                ~bheap[a].self.alive => bheap[a].idx \notin IdxOf(bheap')
      /\ Range(ev'.visited) \cap hist.freed = {}
      /\ IdxOf(bheap') \cap hist'.freed = {}
      /\ hist.freed \subseteq hist'.freed
    ]_vars

\* bullets were walked by drawBullets after earlier ones had been freed, one
\* of them by a hit
C2_Witness ==
  /\ ev.op = "drawBullets"
  /\ Len(ev.visited) >= 2
  /\ hist.hit # {}
  /\ Cardinality(hist.freed) >= 2

WithinInitial(s) ==
  /\ 0 <= s.health /\ s.health <= s.init_health
  /\ 0 <= s.energy /\ s.energy <= s.init_energy

\* C7: every unit and the player keep 0 <= health <= init_health and
\* 0 <= energy <= init_energy, through hits, nextGameLevel and dropGameLevel.
C7_StatsWithinInitial ==
  /\ \A a \in DOMAIN uheap : WithinInitial(uheap[a].self.state)
  /\ WithinInitial(player.state)

\* the player was shot down, and dropGameLevel restored the ship
C7_Witness ==
  /\ ev.op = "dropGameLevel"
  /\ ev.ok
  /\ stat = newGameStat
  /\ player.state.health = player.state.init_health
  /\ player.state.energy = player.state.init_energy
  /\ player.state.hit_time > StartTime

\* the total of one damage field over a sequence of hits
RECURSIVE SumDamage(_, _, _)
SumDamage(heap, hits, field) ==
  IF hits = <<>> THEN 0
  ELSE (IF field = "health" THEN heap[hits[1].addr].self.params.health
        ELSE heap[hits[1].addr].self.params.energy)
       + SumDamage(heap, Tail(hits), field)

\* what a pass must have done, given the hits it reports; owner is the owner
\* a bullet must have to strike this kind of target
HitsAreSingle(hits, owner) ==
  \A i \in DOMAIN hits :
       /\ hits[i].bullet \notin hist.hit
       /\ \A j \in DOMAIN hits : i # j => hits[i].bullet # hits[j].bullet
       /\ hits[i].addr \in DOMAIN bheap
       /\ bheap[hits[i].addr].idx = hits[i].bullet
       /\ bheap[hits[i].addr].self.alive
       /\ bheap[hits[i].addr].self.owner = owner
       /\ hits[i].bullet \notin IdxOf(bheap')

\* C9: a bullet strikes at most once in its life: the first unit in list
\* order whose box it meets (or the player, for a unit's bullet) takes its
\* damage once, gets hit_time = now, and the bullet is dead at once; nothing
\* else changes anybody's health.
C9_OneHitPerBullet ==
  [][ /\ ev'.op = "checkBulletHitsUnits" =>
           LET hits == ev'.hits
               order == UnitAddrs(units, uheap)
               Meets(u, b) == CheckCollisionBoxes(getUnitBoundingBox(uheap[u].self),
                                                  getBulletBoundingBox(bheap[b].self))
           IN /\ HitsAreSingle(hits, BULLET_OWNER_PLAYER)
              /\ stat'.hits = stat.hits + Len(hits)
              /\ \A i \in DOMAIN hits :
                   \E k \in DOMAIN order :
                     /\ order[k] = hits[i].target
                     /\ Meets(order[k], hits[i].addr)
                     /\ \A m \in 1..(k - 1) : ~Meets(order[m], hits[i].addr)
                     /\ uheap'[order[k]].self.state.hit_time = now
              /\ \A b \in DOMAIN bheap :
                   (/\ bheap[b].self.alive
                    /\ bheap[b].self.owner = BULLET_OWNER_PLAYER
                    /\ \E k \in DOMAIN order : Meets(order[k], b))
                   => \E i \in DOMAIN hits : hits[i].addr = b
              /\ \A u \in DOMAIN uheap :
                   LET OnU(h) == h.target = u
                       mine == SelectSeq(hits, OnU)
                   IN /\ uheap'[u].self.state.health =
                           Max(0, uheap[u].self.state.health
                                    - SumDamage(bheap, mine, "health"))
                      /\ uheap'[u].self.state.energy =
                           Max(0, uheap[u].self.state.energy
                                    - SumDamage(bheap, mine, "energy"))
                      /\ (mine = <<>> => uheap'[u].self = uheap[u].self)
              /\ player' = player
      /\ ev'.op = "checkBulletHitsPlayer" =>
           LET hits == ev'.hits
               Meets(b) == CheckCollisionBoxes(getPlayerBoundingBox(player),
                                               getBulletBoundingBox(bheap[b].self))
           IN /\ HitsAreSingle(hits, BULLET_OWNER_UNIT)
              /\ \A i \in DOMAIN hits : /\ hits[i].target = "player"
                                        /\ Meets(hits[i].addr)
                                        /\ player'.state.hit_time = now
              /\ \A b \in DOMAIN bheap :
                   (/\ bheap[b].self.alive
                    /\ bheap[b].self.owner = BULLET_OWNER_UNIT
                    /\ Meets(b))
                   => \E i \in DOMAIN hits : hits[i].addr = b
              /\ player'.state.health =
                   Max(0, player.state.health - SumDamage(bheap, hits, "health"))
              /\ player'.state.energy =
                   Max(0, player.state.energy - SumDamage(bheap, hits, "energy"))
              /\ (hits = <<>> => player' = player)
              /\ uheap' = uheap
      /\ ev'.op \notin {"checkBulletHitsUnits", "checkBulletHitsPlayer",
                        "nextGameLevel", "dropGameLevel"} =>
           /\ ev'.hits = <<>>
           /\ player'.state = player.state
           /\ \A u \in DOMAIN uheap \cap DOMAIN uheap' :
                /\ uheap'[u].self.state.health = uheap[u].self.state.health
                /\ uheap'[u].self.state.energy = uheap[u].self.state.energy
                /\ uheap'[u].self.state.hit_time = uheap[u].self.state.hit_time
    ]_vars

\* a bullet passed the first unit of the list and destroyed the second
C9_Witness ==
  /\ ev.op = "checkBulletHitsUnits"
  /\ Len(ev.hits) = 1
  /\ units.length = 2
  /\ ev.hits[1].target = units.tail
  /\ ev.hits[1].health = DEFAULT_UNIT_HEALTH
  /\ uheap[units.tail].self.state.health = 0
  /\ uheap[units.tail].self.state.hit_time = now
  /\ ev.hits[1].bullet \in hist.freed

\* C10: checkBulletHitsUnits lets no unit whose health is 0 consume a bullet.
C10_DestroyedUnitsConsumeNothing ==
  [][ ev'.op = "checkBulletHitsUnits" =>
        \A i \in DOMAIN ev'.hits : ev'.hits[i].health > 0
    ]_vars

(* ---------------------------------------------------------------------- *)
(* Owner eligibility and statistics                                        *)
(* ---------------------------------------------------------------------- *)
AliveOf(heap, owner) ==
  {b \in DOMAIN heap : heap[b].self.alive /\ heap[b].self.owner = owner}

\* C11: a player-owned bullet never changes the player's health, energy or
\* hit_time and is never consumed by the player; a unit-owned bullet never
\* changes any unit's health, energy or hit_time and is never consumed by a
\* unit.
C11_OwnerEligibility ==
  [][ /\ ev'.op = "checkBulletHitsUnits" =>
           /\ \A i \in DOMAIN ev'.hits :
                bheap[ev'.hits[i].addr].self.owner = BULLET_OWNER_PLAYER
           /\ \A b \in AliveOf(bheap, BULLET_OWNER_UNIT) :
                /\ b \in DOMAIN bheap'
                /\ bheap'[b].self = bheap[b].self
                /\ bheap'[b].idx = bheap[b].idx
           /\ AliveOf(bheap, BULLET_OWNER_PLAYER) = {} => uheap' = uheap
           /\ player' = player
      /\ ev'.op = "checkBulletHitsPlayer" =>
           /\ \A i \in DOMAIN ev'.hits :
                bheap[ev'.hits[i].addr].self.owner = BULLET_OWNER_UNIT
           /\ \A b \in AliveOf(bheap, BULLET_OWNER_PLAYER) :
                /\ b \in DOMAIN bheap'
                /\ bheap'[b].self = bheap[b].self
                /\ bheap'[b].idx = bheap[b].idx
           /\ AliveOf(bheap, BULLET_OWNER_UNIT) = {} => player' = player
           /\ uheap' = uheap
    ]_vars

\* checkBulletHitsPlayer has run over a player's bullet that lies inside the
\* player's box, and the bullet is still there
C11_Witness ==
  /\ ev.op = "checkBulletHitsPlayer"
  /\ \E b \in AliveOf(bheap, BULLET_OWNER_PLAYER) :
       CheckCollisionBoxes(getPlayerBoundingBox(player),
                           getBulletBoundingBox(bheap[b].self))

\* C12: every hit, on a unit or on the player, adds exactly 1 to hits and
\* GAME_STAT_HIT_COST to the score, and leaves misses alone.
C12_HitAddsToScore ==
  [][ ev'.op \in {"checkBulletHitsUnits", "checkBulletHitsPlayer"} =>
        /\ stat'.hits = stat.hits + Len(ev'.hits)
        /\ stat'.score = stat.score + GAME_STAT_HIT_COST * Len(ev'.hits)
        /\ stat'.misses = stat.misses
    ]_vars

\* the z a bullet has after its next update
NextZ(bullet) ==
  bullet.position.z
    + ((bullet.movement.speed + bullet.movement.acceleration)
         * bullet.movement.dir.z) \div Milli

Leaves(bullet, frame) ==
  NextZ(bullet) < frame.top \/ NextZ(bullet) > frame.bottom

\* C13: a player's bullet that leaves [frame.top, frame.bottom] alive adds 1
\* to misses and takes GAME_STAT_MISS_COST from the score, once; a unit's
\* bullet that leaves changes no statistic; a bullet consumed by a hit or a
\* mutual collision produces no miss.
C13_MissOncePerLostBullet ==
  [][ /\ ev'.op = "drawBullets" =>
           LET lost == {b \in AliveOf(bheap, BULLET_OWNER_PLAYER) :
                          Leaves(bheap[b].self, bullets.frame)}
               gone == {b \in DOMAIN bheap : bheap[b].idx \notin IdxOf(bheap')}
           IN /\ stat'.misses = stat.misses + Cardinality(lost)
              /\ stat'.score = stat.score - GAME_STAT_MISS_COST * Cardinality(lost)
              /\ stat'.hits = stat.hits
              /\ \A b \in gone : Leaves(bheap[b].self, bullets.frame)
              /\ lost \subseteq gone
              /\ \A b \in lost : /\ bheap[b].idx \notin hist.hit
                                 /\ bheap[b].idx \notin hist.freed
                                 /\ bheap[b].idx \in hist'.freed
      /\ ev'.op \notin {"drawBullets", "dropGameLevel"} =>
           stat'.misses = stat.misses
    ]_vars

\* one drawBullets call lost a unit's bullet past the frame, and a player's
\* bullet has been lost and charged too
C13_Witness ==
  /\ ev.op = "drawBullets"
  /\ stat.misses >= 1
  /\ \E i \in DOMAIN ev.visited :
       /\ ev.pre[i] = BULLET_OWNER_UNIT
       /\ ev.visited[i] \notin IdxOf(bheap)
       /\ ev.visited[i] \in hist.freed
       /\ ev.visited[i] \notin hist.hit

\* C14: every bullet updatePlayer spawns takes GAME_STAT_SHOOT_COST from the
\* score at the moment of firing.
C14_ShotIsCharged ==
  [][ (ev'.op = "drawPlayer" /\ bullets'.idx > bullets.idx) =>
        stat'.score = stat.score - GAME_STAT_SHOOT_COST
    ]_vars

(* ---------------------------------------------------------------------- *)
(* One bullet, or one unit, under repeated update and draw calls           *)
(* ---------------------------------------------------------------------- *)
MaxTicks == 62                 \* calls of updateBullet / drawBullet explored
MaxFallFrames == 70            \* calls of drawUnit explored
TickSpeeds == {1000, 3000}     \* initial speeds, distance per tick
TickAccelerations == {0, 200}  \* accelerations, speed per tick

TickBullets ==
  {[init |-> [direction |-> d, owner |-> o, acceleration |-> a, speed |-> v],
    bullet |-> newBullet(d, newBulletPosition(0, 0, 0),
                         newBulletParameters(INIT_LEVEL_PLAYER_DAMAGE_LIFE \div Milli,
                                             INIT_LEVEL_PLAYER_DAMAGE_ENERGY \div Milli),
                         o, a, v),
    consumed |-> FALSE, ticks |-> 0] :
     d \in {BULLET_MOVEMENT_DIRECTION_UP, BULLET_MOVEMENT_DIRECTION_DOWN},
     o \in {BULLET_OWNER_PLAYER, BULLET_OWNER_UNIT},
     a \in TickAccelerations, v \in TickSpeeds}

\* the first unit of a formation as newUnitList places it
TickUnit ==
  LET r == newUnitList(1, 1, GAME_UNITS_Z_OFFSET, <<>>, TRUE)
  IN [unit |-> r.heap[r.list.head].self, frames |-> 0]

InitTick ==
  /\ bullets = newBulletList(0)
  /\ bheap = <<>>
  /\ units = emptyUnitList
  /\ uheap = <<>>
  /\ player = newPlayer(PLAYER_MAX_X, PLAYER_MAX_Z, PLAYER_OFFSET_Z)
  /\ stat = newGameStat
  /\ level = getFirstLevel
  /\ run = Idle
  /\ now = StartTime
  /\ keys = NoKeys
  /\ hist = NoHistory
  /\ ev = NoEvent
  /\ \/ mode = "tickBullet" /\ arg \in TickBullets
     \/ mode = "tickUnit" /\ arg = TickUnit
  /\ ret = <<>>

TickUpdateBullet ==
  /\ mode = "tickBullet"
  /\ arg.ticks < MaxTicks
  /\ LET r == updateBullet(arg.bullet, bullets.frame, stat)
     IN /\ arg' = [arg EXCEPT !.bullet = r.bullet, !.ticks = @ + 1]
        /\ stat' = r.stat
  /\ ev' = Event("updateBullet", TRUE, <<>>, <<>>, <<>>)
  /\ UNCHANGED <<poolVars, player, level, run, now, keys, hist, mode, ret>>

TickDrawBullet ==
  /\ mode = "tickBullet"
  /\ arg.ticks < MaxTicks
  /\ LET r == drawBullet(arg.bullet, bullets.frame, stat)
     IN /\ arg' = [arg EXCEPT !.bullet = r.bullet, !.ticks = @ + 1]
        /\ stat' = r.stat
  /\ ev' = Event("drawBullet", TRUE, <<>>, <<>>, <<>>)
  /\ UNCHANGED <<poolVars, player, level, run, now, keys, hist, mode, ret>>

\* a hit or a mutual collision takes the bullet: bullet->alive = false
TickConsumeBullet ==
  /\ mode = "tickBullet"
  /\ arg.bullet.alive
  /\ arg' = [arg EXCEPT !.bullet.alive = FALSE, !.consumed = TRUE]
  /\ ev' = Event("consume", TRUE, <<>>, <<>>, <<>>)
  /\ UNCHANGED <<poolVars, player, stat, level, run, now, keys, hist, mode, ret>>

\* a fatal hit: the health of the unit drops to 0
TickDestroyUnit ==
  /\ mode = "tickUnit"
  /\ arg.unit.state.health > 0
  /\ arg' = [arg EXCEPT !.unit.state.health =
                          hitDamage(@, DEFAULT_UNIT_HEALTH),
                        !.unit.state.hit_time = now]
  /\ ev' = Event("destroy", TRUE, <<>>, <<>>, <<>>)
  /\ UNCHANGED <<poolVars, player, stat, level, run, now, keys, hist, mode, ret>>

\* one frame: drawUnit, without the sweep of drawUnits
TickDrawUnit ==
  /\ mode = "tickUnit"
  /\ arg.frames < MaxFallFrames
  /\ arg' = [arg EXCEPT !.unit = drawUnit(@, FrameMs, now), !.frames = @ + 1]
  /\ now' = now + FrameMs
  /\ ev' = Event("drawUnit", TRUE, <<>>, <<>>, <<>>)
  /\ UNCHANGED <<poolVars, player, stat, level, run, keys, hist, mode, ret>>

NextTick ==
  \/ TickUpdateBullet
  \/ TickDrawBullet
  \/ TickConsumeBullet
  \/ TickDestroyUnit
  \/ TickDrawUnit

SpecTick == InitTick /\ [][NextTick]_vars

InFrame(bullet, frame) ==
  frame.top <= bullet.position.z /\ bullet.position.z <= frame.bottom

\* Scenario A: spawned at z = 0, moving up, constant speed 1
ScenarioA(a) ==
  /\ a.init.direction = BULLET_MOVEMENT_DIRECTION_UP
  /\ a.init.speed = Milli
  /\ a.init.acceleration = 0
  /\ ~a.consumed

\* C15: updateBullet marks a bullet dead at the first tick that leaves its z
\* outside [top, bottom] and not earlier; the bullet of Scenario A is alive
\* after each of the first 60 ticks and dead, with z <= -60, after the 61st.
C15_DeadWhenOutsideFrame ==
  [][ ev'.op \in {"updateBullet", "drawBullet"} =>
        /\ arg.bullet.alive =>
             (arg'.bullet.alive <=> InFrame(arg'.bullet, bullets.frame))
        /\ ScenarioA(arg') =>
             IF arg'.ticks <= 60
             THEN /\ arg'.bullet.alive
                  /\ arg'.bullet.position.z = 0 - arg'.ticks * Milli
             ELSE /\ ~arg'.bullet.alive
                  /\ arg'.bullet.position.z <= FRAME_TOP
    ]_vars

\* the bullet of Scenario A after its 61st tick
C15_Witness ==
  /\ mode = "tickBullet"
  /\ ScenarioA(arg)
  /\ arg.ticks = 61
  /\ ~arg.bullet.alive
  /\ arg.bullet.position.z = 0 - 61 * Milli

\* C16: a dead bullet stays dead, and updateBullet / drawBullet change
\* neither its position nor its speed nor any statistic; a unit that has
\* become invisible stays invisible.
C16_FlagsNeverRise ==
  [][ /\ (mode = "tickBullet" /\ ~arg.bullet.alive) =>
           /\ arg'.bullet = arg.bullet
           /\ stat' = stat
      /\ (mode = "tickUnit" /\ ~arg.unit.visible) => ~arg'.unit.visible
    ]_vars

\* a bullet that died leaving the frame took further updates, and it has
\* cost one miss
C16_Witness ==
  /\ mode = "tickBullet"
  /\ ev.op = "updateBullet"
  /\ ~arg.consumed
  /\ ~arg.bullet.alive
  /\ arg.ticks = MaxTicks
  /\ Abs(arg.bullet.position.z) < FRAME_BOTTOM + 3 * Milli
  /\ stat.misses = 1

\* a destroyed unit that fell out of its Z-range took further drawUnit calls
C16_UnitWitness ==
  /\ mode = "tickUnit"
  /\ ev.op = "drawUnit"
  /\ ~arg.unit.visible
  /\ Abs(arg.unit.position.z + arg.unit.position.z_offset)
       > arg.unit.position.z_max_area + 2 * FALL_SPEED_Z * FrameMs

(* ---------------------------------------------------------------------- *)
(* bulletsResolveMutualCollisions on its own, over small pools             *)
(* ---------------------------------------------------------------------- *)
MaxMutual == 3                 \* bullets in the pool at the call
MutualXs == {0, 300}           \* x and z of the bullets; the collision
MutualZs == {0, 400, 800}      \* radii add up to 500

MutualInputs ==
  UNION {[1..n -> [x : MutualXs, z : MutualZs,
                   owner : {BULLET_OWNER_PLAYER, BULLET_OWNER_UNIT}]] :
           n \in 1..MaxMutual}

MutualBullet(in) ==
  newBullet(IF in.owner = BULLET_OWNER_PLAYER
            THEN BULLET_MOVEMENT_DIRECTION_UP
            ELSE BULLET_MOVEMENT_DIRECTION_DOWN,
            newBulletPosition(in.x, 0, in.z),
            newBulletParameters(INIT_LEVEL_PLAYER_DAMAGE_LIFE \div Milli,
                                INIT_LEVEL_PLAYER_DAMAGE_ENERGY \div Milli),
            in.owner, INIT_LEVEL_PLAYER_BULLET_ACCELERATION,
            INIT_LEVEL_PLAYER_BULLET_INIT_SPEED)

\* the pool after the bullets of input were spawned in order
RECURSIVE MutualPool(_, _, _)
MutualPool(st, input, i) ==
  IF i > Len(input) THEN st
  ELSE MutualPool(insertBulletIntoList(st.list, st.heap,
                                       MutualBullet(input[i]), i),
                  input, i + 1)

InitMutual ==
  /\ \E input \in MutualInputs :
       LET st == MutualPool([list |-> newBulletList(0), heap |-> <<>>], input, 1)
       IN /\ bullets = st.list
          /\ bheap = st.heap
  /\ units = emptyUnitList
  /\ uheap = <<>>
  /\ player = newPlayer(PLAYER_MAX_X, PLAYER_MAX_Z, PLAYER_OFFSET_Z)
  /\ stat = newGameStat
  /\ level = getFirstLevel
  /\ run = Idle
  /\ now = 0
  /\ keys = NoKeys
  /\ hist = NoHistory
  /\ ev = NoEvent
  /\ mode = "mutual"
  /\ arg = <<>>
  /\ ret = <<>>

\* one call; pre keeps the bullets of the pool in list order, ok the flag
MutualResolve ==
  /\ mode = "mutual"
  /\ ev.op = "init"
  /\ \E same_owner_collides \in BOOLEAN :
       LET r == bulletsResolveMutualCollisions(bullets, bheap, same_owner_collides)
           order == Walk(bheap, bullets.head, bullets.length)
       IN /\ bullets' = r.list
          /\ bheap' = r.heap
          /\ hist' = HistoryAfter(hist, bheap, r.heap, <<>>)
          /\ ev' = Event("bulletsResolveMutualCollisions", same_owner_collides,
                         [i \in DOMAIN order |-> bheap[order[i]].self], <<>>,
                         r.visited)
  /\ UNCHANGED <<units, uheap, player, stat, level, run, now, keys, mode,
                 fnVars>>

NextMutual == MutualResolve

SpecMutual == InitMutual /\ [][NextMutual]_vars

\* the bullets the call destroyed, as positions in the list before the call
Destroyed == {i \in DOMAIN ev'.pre : bheap[Walk(bheap, bullets.head, bullets.length)[i]].idx
                                       \notin IdxOf(bheap')}

SameOwner(i, j) == ev'.pre[i].owner = ev'.pre[j].owner

Overlap(i, j) == bulletsOverlapXZ(ev'.pre[i], ev'.pre[j])

Touches(i) == {k \in DOMAIN ev'.pre : k # i /\ Overlap(i, k)}

RECURSIVE Pairing(_, _, _, _)
Pairing(pre, flag, i, dead) ==
  IF i > Len(pre) THEN dead
  ELSE IF i \in dead THEN Pairing(pre, flag, i + 1, dead)
  ELSE LET later == {j \in DOMAIN pre :
                       /\ j > i
                       /\ j \notin dead
                       /\ (flag \/ pre[i].owner # pre[j].owner)
                       /\ bulletsOverlapXZ(pre[i], pre[j])}
       IN IF later = {} THEN Pairing(pre, flag, i + 1, dead)
          ELSE Pairing(pre, flag, i + 1,
                       dead \cup {i, CHOOSE j \in later : \A k \in later : j <= k})

\* C18: one call destroys bullets in pairs, each bullet in at most one: in
\* list order a live bullet is paired with the earliest later bullet that is
\* still alive, owner-eligible and overlapping, and is tested no further; dead
\* bullets are skipped on both sides.
C18_PairsInListOrder ==
  [][ ev'.op = "bulletsResolveMutualCollisions" =>
        /\ Destroyed = Pairing(ev'.pre, ev'.ok, 1, {})
        /\ Cardinality(Destroyed) % 2 = 0
        /\ bullets'.length = bullets.length - Cardinality(Destroyed)
    ]_vars

\* a player's bullet overlapped two bullets of the units: it went with the
\* first of them, and the second is still in the pool
C18_Witness ==
  /\ ev.op = "bulletsResolveMutualCollisions"
  /\ ~ev.ok
  /\ Len(ev.pre) = 3
  /\ ev.pre[1].owner = BULLET_OWNER_PLAYER
  /\ ev.pre[2].owner = BULLET_OWNER_UNIT
  /\ ev.pre[3].owner = BULLET_OWNER_UNIT
  /\ bulletsOverlapXZ(ev.pre[1], ev.pre[2])
  /\ bulletsOverlapXZ(ev.pre[1], ev.pre[3])
  /\ IdxOf(bheap) = {3}

(* ---------------------------------------------------------------------- *)
(* Movement oscillation (movement.c)                                       *)
(* ---------------------------------------------------------------------- *)
MOVEMENT_DIRECTION_LEFT == 1
MOVEMENT_DIRECTION_RIGHT == 2
MOVEMENT_DIRECTION_UP == 4
MOVEMENT_DIRECTION_DOWN == 8
MOVEMENT_DIRECTION_FORWARD == 16
MOVEMENT_DIRECTION_BACKWARD == 32
MOVEMENT_MAX_X == 1000
MOVEMENT_MAX_Y == 1000
MOVEMENT_MAX_Z == 1000
MOVEMENT_MAX_ROTATE_X == 10000
MOVEMENT_MAX_ROTATE_Z == 15000
MOVEMENT_MAX_ANGLE == 15000
RAND_STEP_MIN == 10
RAND_STEP_MAX == 50

MaxMoveCalls == 28             \* calls of iterateMovementAction explored
MoveSteps == {10, 40, 50}      \* the values randomFloatInRange returns here

\* direction & bit, direction &= ~bit, direction |= bit on the 8-bit mask
HasBit(direction, bit) == (direction \div bit) % 2 = 1
ClearBit(direction, bit) == IF HasBit(direction, bit) THEN direction - bit ELSE direction
SetBit(direction, bit) == IF HasBit(direction, bit) THEN direction ELSE direction + bit

\* C division of a product, truncating toward zero
MulDiv(a, b, c) == Sgn(a * b) * (Abs(a * b) \div c)

\* the three steps one call of randSpeedMovementAction draws
RandSteps == [x : MoveSteps, y : MoveSteps, z : MoveSteps]

randSpeedMovementAction(action, r) ==
  [action EXCEPT !.step_x = r.x, !.step_y = r.y, !.step_z = r.z]

\* newMovementAction, with the directions and steps rand() gave
newMovementActionWith(left, forward, r) ==
  randSpeedMovementAction(
    [direction |-> (IF left THEN MOVEMENT_DIRECTION_LEFT
                    ELSE MOVEMENT_DIRECTION_RIGHT)
                   + (IF forward THEN MOVEMENT_DIRECTION_FORWARD
                      ELSE MOVEMENT_DIRECTION_BACKWARD),
     max_x |-> MOVEMENT_MAX_X, max_y |-> MOVEMENT_MAX_Y, max_z |-> MOVEMENT_MAX_Z,
     x |-> 0, y |-> 0, z |-> 0,
     max_rotate_x |-> MOVEMENT_MAX_ROTATE_X, max_rotate_z |-> MOVEMENT_MAX_ROTATE_Z,
     max_rotate_y |-> 0, rotate_x |-> 0, rotate_y |-> 0, rotate_z |-> 0,
     max_angle |-> MOVEMENT_MAX_ANGLE, angle |-> 0,
     step_x |-> 0, step_y |-> 0, step_z |-> 0], r)

\* variant: the new bit is set and the old one is not cleared
Flip_KeepsOld(direction, a, b) == SetBit(SetBit(direction, a), b)

\* direction with bit a replaced by bit b when a is set, else b by a
Flip(direction, a, b) ==
  IF HasBit(direction, a) THEN SetBit(ClearBit(direction, a), b)
  ELSE SetBit(ClearBit(direction, b), a)

\* the X axis of iterateMovementAction; r is the draw used on a reversal
iterateX(a, r) ==
  IF HasBit(a.direction, MOVEMENT_DIRECTION_LEFT)
       \/ HasBit(a.direction, MOVEMENT_DIRECTION_RIGHT)
  THEN LET a1 == IF Abs(a.x) <= a.max_x
                 THEN [a EXCEPT !.x = IF HasBit(a.direction, MOVEMENT_DIRECTION_LEFT)
                                      THEN @ - a.step_x ELSE @ + a.step_x]
                 ELSE randSpeedMovementAction(
                        [a EXCEPT !.x = a.max_x * (IF a.x > 0 THEN 1 ELSE 0 - 1),
                                  !.direction = Flip(@, MOVEMENT_DIRECTION_LEFT,
                                                     MOVEMENT_DIRECTION_RIGHT)], r)
       IN [a1 EXCEPT !.rotate_z = 0 - MulDiv(a1.max_rotate_z, a1.x, a1.max_x),
                     !.angle = MulDiv(a1.max_angle,
                                      (a1.max_x - Abs(a1.x)) - a1.max_x, Milli)]
  ELSE [a EXCEPT !.rotate_z = 0]

iterateY(a, r) ==
  IF HasBit(a.direction, MOVEMENT_DIRECTION_UP)
       \/ HasBit(a.direction, MOVEMENT_DIRECTION_DOWN)
  THEN IF Abs(a.y) <= a.max_y
       THEN [a EXCEPT !.y = IF HasBit(a.direction, MOVEMENT_DIRECTION_UP)
                            THEN @ - a.step_y ELSE @ + a.step_y]
       ELSE randSpeedMovementAction(
              [a EXCEPT !.y = a.max_y * (IF a.y > 0 THEN 1 ELSE 0 - 1),
                        !.direction = Flip(@, MOVEMENT_DIRECTION_UP,
                                           MOVEMENT_DIRECTION_DOWN)], r)
  ELSE a

iterateZ(a, r) ==
  IF HasBit(a.direction, MOVEMENT_DIRECTION_FORWARD)
       \/ HasBit(a.direction, MOVEMENT_DIRECTION_BACKWARD)
  THEN LET a1 == IF Abs(a.z) <= a.max_z
                 THEN [a EXCEPT !.z = IF HasBit(a.direction, MOVEMENT_DIRECTION_FORWARD)
                                      THEN @ - a.step_z ELSE @ + a.step_z]
                 ELSE randSpeedMovementAction(
                        [a EXCEPT !.z = a.max_z * (IF a.z > 0 THEN 1 ELSE 0 - 1),
                                  !.direction = Flip(@, MOVEMENT_DIRECTION_FORWARD,
                                                     MOVEMENT_DIRECTION_BACKWARD)], r)
       IN [a1 EXCEPT !.rotate_x = MulDiv(a1.max_rotate_x, a1.z, a1.max_z),
                     !.angle = MulDiv(a1.max_angle,
                                      (a1.max_z - Abs(a1.z)) - a1.max_z, Milli)]
  ELSE [a EXCEPT !.rotate_x = 0]

\* rx, ry, rz: the draws of the reversals of the X, Y and Z axis
iterateMovementAction(action, rx, ry, rz) ==
  iterateZ(iterateY(iterateX(action, rx), ry), rz)

\* the draws an axis can make in this call: one of RandSteps on a reversal
DrawsOf(active, offset, bound, action) ==
  IF active /\ Abs(offset) > bound THEN RandSteps
  ELSE {[x |-> action.step_x, y |-> action.step_y, z |-> action.step_z]}

InitMove ==
  /\ bullets = newBulletList(0)
  /\ bheap = <<>>
  /\ units = emptyUnitList
  /\ uheap = <<>>
  /\ player = newPlayer(PLAYER_MAX_X, PLAYER_MAX_Z, PLAYER_OFFSET_Z)
  /\ stat = newGameStat
  /\ level = getFirstLevel
  /\ run = Idle
  /\ now = 0
  /\ keys = NoKeys
  /\ hist = NoHistory
  /\ ev = NoEvent
  /\ mode = "move"
  /\ \E left, forward \in BOOLEAN, r \in RandSteps :
       arg = [action |-> newMovementActionWith(left, forward, r), calls |-> 0]
  /\ ret = <<>>

\* one call of iterateMovementAction; pre keeps the action before the call
MoveIterate ==
  /\ mode = "move"
  /\ arg.calls < MaxMoveCalls
  /\ LET a == arg.action
         d == a.direction
     IN \E rx \in DrawsOf(HasBit(d, MOVEMENT_DIRECTION_LEFT)
                            \/ HasBit(d, MOVEMENT_DIRECTION_RIGHT),
                          a.x, a.max_x, a),
           ry \in DrawsOf(HasBit(d, MOVEMENT_DIRECTION_UP)
                            \/ HasBit(d, MOVEMENT_DIRECTION_DOWN),
                          a.y, a.max_y, a),
           rz \in DrawsOf(HasBit(d, MOVEMENT_DIRECTION_FORWARD)
                            \/ HasBit(d, MOVEMENT_DIRECTION_BACKWARD),
                          a.z, a.max_z, a) :
          arg' = [action |-> iterateMovementAction(a, rx, ry, rz),
                  calls |-> arg.calls + 1]
  /\ ev' = Event("iterateMovementAction", TRUE, arg.action, <<>>, <<>>)
  /\ UNCHANGED <<poolVars, gameVars, mode, ret>>

NextMove == MoveIterate

SpecMove == InitMove /\ [][NextMove]_vars

\* C19: after any number of iterateMovementAction calls from
\* newMovementAction, |x| <= max_x, |y| <= max_y and |z| <= max_z.
C19_OffsetWithinBound ==
  mode = "move" =>
    /\ Abs(arg.action.x) <= arg.action.max_x
    /\ Abs(arg.action.y) <= arg.action.max_y
    /\ Abs(arg.action.z) <= arg.action.max_z

\* the rule of C20 for one axis: before and after offset, bound, step, and
\* whether the direction bit toward smaller offsets is set
AxisRule(o, o1, bound, step, step1, neg, neg1) ==
  IF Abs(o) >= bound
  THEN /\ o1 = bound * Sgn(o)
       /\ neg1 = ~neg
       /\ RAND_STEP_MIN <= step1 /\ step1 <= RAND_STEP_MAX
  ELSE /\ o1 = (IF neg THEN o - step ELSE o + step)
       /\ neg1 = neg
       /\ step1 = step

\* C20: on each call, an axis with |offset| >= bound is clamped to the bound
\* with its sign, flips its direction and draws a step in [0.01, 0.05]; any
\* other axis moves by its step in its direction and keeps direction and step.
C20_AxisTransition ==
  [][ ev'.op = "iterateMovementAction" =>
        LET a == arg.action
            b == arg'.action
        IN /\ AxisRule(a.x, b.x, a.max_x, a.step_x, b.step_x,
                       HasBit(a.direction, MOVEMENT_DIRECTION_LEFT),
                       HasBit(b.direction, MOVEMENT_DIRECTION_LEFT))
           /\ AxisRule(a.z, b.z, a.max_z, a.step_z, b.step_z,
                       HasBit(a.direction, MOVEMENT_DIRECTION_FORWARD),
                       HasBit(b.direction, MOVEMENT_DIRECTION_FORWARD))
    ]_vars

(* ---------------------------------------------------------------------- *)
(* Particle emitters: the bullet trail and the hit explosion               *)
(* ---------------------------------------------------------------------- *)
\* lifetimes and frame times are in milliseconds, the spawn accumulator in
\* thousandths of a particle
TRAIL_MAX == 128

\* the array length of BulletExplosion.p; its header is not part of the
\* sources at hand, the loops of explosion.c guard with it
EXP_MAX == 256

TrailSpawnRate == 60

TrailTtlMin == 350

TrailTtlMax == 550

FireCount == 100

FireTtlMin == 250

FireTtlMax == 450

SmokeCount == 80

SmokeTtlMin == 900

SmokeTtlMax == 1600

SparkCount == 60

SparkTtlMin == 350

SparkTtlMax == 700

RandomMax == 10000

\* number of emit or spawn calls in one run
MaxEmits == 2

\* values GetRandomValue(0, 10000) returns, taken in turn from a start
RandomValues == <<0, 5000, 10000>>

RandomSeeds == {0, 1}

\* frame times handed to the update calls and to trailEmit
UpdateDts == {0, 200}

EmitDts == {100, 2500}

GetRandomValue(seed, k) == RandomValues[((seed + k) % Len(RandomValues)) + 1]

frand(a, b, r) == a + ((b - a) * r) \div RandomMax

\* a zeroed slot; id stands for the fields no operation here looks at
\* (position, velocity, colour) and tells the particles apart
NoParticle == [life |-> 0, ttl |-> 0, kind |-> "none", id |-> 0]

\* w: the write index of the update loop, top: the highest array index
\* written so far, serial: particles created so far
newTrailEmitter ==
  [p |-> [i \in 1..TRAIL_MAX |-> NoParticle], count |-> 0, accum |-> 0,
   spawnRate |-> TrailSpawnRate, active |-> FALSE, w |-> 0,
   top |-> 0 - 1, serial |-> 0]

newBulletExplosion ==
  [p |-> [i \in 1..EXP_MAX |-> NoParticle], count |-> 0, accum |-> 0,
   spawnRate |-> 0, active |-> FALSE, w |-> 0, top |-> 0 - 1,
   serial |-> 0]

\* the member of a set of one; the members of a set are finished values, so
\* what is applied to a member does not compute it again
The(S) == CHOOSE v \in S : TRUE

\* q = &e->p[e->count++] and the assignments through q; a store past the
\* array leaves the array as it is and shows in top
storeParticle(e, kind, ttl) ==
  [e EXCEPT !.p = IF e.count < Len(e.p)
                  THEN [@ EXCEPT ![e.count + 1] =
                          [life |-> ttl, ttl |-> ttl, kind |-> kind,
                           id |-> e.serial + 1]]
                  ELSE @,
            !.count = @ + 1,
            !.top = IF e.count > @ THEN e.count ELSE @,
            !.serial = @ + 1]

trailEmitTest_NoCapacityTest(e) == e.accum >= Milli

\* the test of the while loop of trailEmit
trailEmitTest(e) == e.accum >= Milli /\ e.count < TRAIL_MAX

\* the body of the while loop, pass k
trailEmitBody(e, seed, k) ==
  [storeParticle(e, "trail",
                 frand(TrailTtlMin, TrailTtlMax, GetRandomValue(seed, k)))
     EXCEPT !.accum = @ - Milli]

\* passes k .. k + n - 1 of the while loop, in order, as far as the test
\* lets them run; the accumulator bounds the number of passes
RECURSIVE trailEmitLoop(_, _, _, _)
trailEmitLoop(e, seed, k, n) ==
  IF n <= 0 \/ ~trailEmitTest(e)
  THEN e
  ELSE IF n = 1
       THEN trailEmitBody(e, seed, k)
       ELSE The({trailEmitLoop(first, seed, k + n \div 2, n - n \div 2) :
                   first \in {trailEmitLoop(e, seed, k, n \div 2)}})

trailEmit(e, dt, seed) ==
  LET e1 == [e EXCEPT !.accum = @ + e.spawnRate * dt]
  IN trailEmitLoop(e1, seed, 0, e1.accum \div Milli)

trailUpdateBody_AgesCopy(e, dt, r) ==
  LET old == e.p[r + 1]
      q == [old EXCEPT !.life = @ - dt]
      e1 == [e EXCEPT !.top = IF r > @ THEN r ELSE @]
  IN IF q.life > 0
     THEN [e1 EXCEPT !.p[e.w + 1] = old, !.w = @ + 1]
     ELSE e1

trailUpdateBody_TestsBeforeAging(e, dt, r) ==
  LET old == e.p[r + 1]
      q == [old EXCEPT !.life = @ - dt]
      e1 == [e EXCEPT !.p[r + 1] = q, !.top = IF r > @ THEN r ELSE @]
  IN IF old.life > 0
     THEN [e1 EXCEPT !.p[e.w + 1] = q, !.w = @ + 1]
     ELSE e1

\* pass r of the loop of trailUpdate: q = &p[r]; q->life -= dt;
\* if (q->life > 0) p[w++] = *q
trailUpdateBody(e, dt, r) ==
  LET q == [e.p[r + 1] EXCEPT !.life = @ - dt]
      e1 == [e EXCEPT !.p[r + 1] = q, !.top = IF r > @ THEN r ELSE @]
  IN IF q.life > 0
     THEN [e1 EXCEPT !.p[e.w + 1] = q, !.w = @ + 1]
     ELSE e1

\* passes r .. r + n - 1 of the loop, in order, while r < count
RECURSIVE trailUpdateLoop(_, _, _, _)
trailUpdateLoop(e, dt, r, n) ==
  IF n <= 0 \/ r >= e.count
  THEN e
  ELSE IF n = 1
       THEN trailUpdateBody(e, dt, r)
       ELSE The({trailUpdateLoop(first, dt, r + n \div 2, n - n \div 2) :
                   first \in {trailUpdateLoop(e, dt, r, n \div 2)}})

trailUpdate(e, dt) ==
  The({[e1 EXCEPT !.count = e1.w, !.w = 0] :
         e1 \in {trailUpdateLoop([e EXCEPT !.w = 0], dt, 0, e.count)}})

\* passes i .. i + m - 1 of one of the three loops of
\* bulletExplosionSpawnAt, in order, while i < n and there is room
RECURSIVE explosionSpawnLoop(_, _, _, _, _, _, _, _)
explosionSpawnLoop(e, kind, n, lo, hi, seed, i, m) ==
  IF m <= 0 \/ ~(i < n /\ e.count < EXP_MAX)
  THEN e
  ELSE IF m = 1
       THEN storeParticle(e, kind, frand(lo, hi, GetRandomValue(seed, i)))
       ELSE The({explosionSpawnLoop(first, kind, n, lo, hi, seed,
                                    i + m \div 2, m - m \div 2) :
                   first \in {explosionSpawnLoop(e, kind, n, lo, hi, seed, i,
                                                 m \div 2)}})

bulletExplosionSpawnAt(e, seed) ==
  The({explosionSpawnLoop(smoke, "spark", SparkCount, SparkTtlMin,
                          SparkTtlMax, seed, 0, SparkCount) :
         smoke \in {explosionSpawnLoop(fire, "smoke", SmokeCount,
                                       SmokeTtlMin, SmokeTtlMax, seed, 0,
                                       SmokeCount) :
                      fire \in {explosionSpawnLoop(
                                  [e EXCEPT !.active = TRUE], "fire",
                                  FireCount, FireTtlMin, FireTtlMax, seed, 0,
                                  FireCount)}}})

\* pass r of the loop of bulletExplosionUpdate
bulletExplosionUpdateBody(e, dt, r) ==
  LET q == [e.p[r + 1] EXCEPT !.life = @ - dt]
      e1 == [e EXCEPT !.p[r + 1] = q, !.top = IF r > @ THEN r ELSE @]
  IN IF q.life > 0
     THEN [e1 EXCEPT !.p[e.w + 1] = q, !.w = @ + 1]
     ELSE e1

RECURSIVE bulletExplosionUpdateLoop(_, _, _, _)
bulletExplosionUpdateLoop(e, dt, r, n) ==
  IF n <= 0 \/ r >= e.count
  THEN e
  ELSE IF n = 1
       THEN bulletExplosionUpdateBody(e, dt, r)
       ELSE The({bulletExplosionUpdateLoop(first, dt, r + n \div 2,
                                           n - n \div 2) :
                   first \in {bulletExplosionUpdateLoop(e, dt, r,
                                                        n \div 2)}})

bulletExplosionUpdate(e, dt) ==
  IF ~e.active
  THEN e
  ELSE The({[e1 EXCEPT !.count = e1.w, !.w = 0,
                        !.active = IF e1.w = 0 THEN FALSE ELSE @] :
              e1 \in {bulletExplosionUpdateLoop([e EXCEPT !.w = 0], dt, 0,
                                                e.count)}})

InitParticles ==
  /\ bullets = newBulletList(0)
  /\ bheap = <<>>
  /\ units = emptyUnitList
  /\ uheap = <<>>
  /\ player = newPlayer(PLAYER_MAX_X, PLAYER_MAX_Z, PLAYER_OFFSET_Z)
  /\ stat = newGameStat
  /\ level = getFirstLevel
  /\ run = Idle
  /\ now = 0
  /\ keys = NoKeys
  /\ hist = NoHistory
  /\ ev = NoEvent
  /\ \/ mode = "trail" /\ arg = [e |-> newTrailEmitter, emits |-> 0]
     \/ mode = "explosion" /\ arg = [e |-> newBulletExplosion, emits |-> 0]
  /\ ret = <<>>

\* the event of a particle call keeps the emitter before it and the frame
\* time
ParticleStep(op, dt, e) ==
  /\ arg' = [arg EXCEPT !.e = e,
                        !.emits = IF op \in {"trailEmit",
                                             "bulletExplosionSpawnAt"}
                                  THEN @ + 1 ELSE @]
  /\ ev' = Event(op, TRUE, [e |-> arg.e, dt |-> dt], <<>>, <<>>)
  /\ UNCHANGED <<poolVars, gameVars, mode, ret>>

TrailEmit ==
  /\ mode = "trail"
  /\ arg.emits < MaxEmits
  /\ \E dt \in EmitDts, seed \in RandomSeeds :
       ParticleStep("trailEmit", dt, trailEmit(arg.e, dt, seed))

TrailUpdateBy(dt) ==
  /\ mode = "trail"
  /\ ParticleStep("trailUpdate", dt, trailUpdate(arg.e, dt))

TrailUpdate == \E dt \in UpdateDts : TrailUpdateBy(dt)

ExplosionSpawn ==
  /\ mode = "explosion"
  /\ arg.emits < MaxEmits
  /\ \E seed \in RandomSeeds :
       ParticleStep("bulletExplosionSpawnAt", 0,
                    bulletExplosionSpawnAt(arg.e, seed))

ExplosionUpdateBy(dt) ==
  /\ mode = "explosion"
  /\ ParticleStep("bulletExplosionUpdate", dt,
                  bulletExplosionUpdate(arg.e, dt))

ExplosionUpdate == \E dt \in UpdateDts : ExplosionUpdateBy(dt)

NextParticles ==
  \/ TrailEmit
  \/ TrailUpdate
  \/ ExplosionSpawn
  \/ ExplosionUpdate

SpecParticles == InitParticles /\ [][NextParticles]_vars

\* The emitters on their way to empty: an emitter that has been fed twice
\* with an update in between, and from then on is only updated.  Every
\* frame calls the update of each emitter with the frame time, which is
\* positive while frames are drawn.
InitDrain ==
  /\ bullets = newBulletList(0)
  /\ bheap = <<>>
  /\ units = emptyUnitList
  /\ uheap = <<>>
  /\ player = newPlayer(PLAYER_MAX_X, PLAYER_MAX_Z, PLAYER_OFFSET_Z)
  /\ stat = newGameStat
  /\ level = getFirstLevel
  /\ run = Idle
  /\ now = 0
  /\ keys = NoKeys
  /\ hist = NoHistory
  /\ ev = NoEvent
  /\ \E dt \in UpdateDts, s1, s2 \in RandomSeeds :
       \/ /\ mode = "trail"
          /\ \E d1, d2 \in EmitDts :
               arg = [e |-> trailEmit(
                              trailUpdate(
                                trailEmit(newTrailEmitter, d1, s1), dt),
                              d2, s2),
                      emits |-> 2]
       \/ /\ mode = "explosion"
          /\ arg = [e |-> bulletExplosionSpawnAt(
                            bulletExplosionUpdate(
                              bulletExplosionSpawnAt(newBulletExplosion, s1),
                              dt),
                            s2),
                    emits |-> 2]
  /\ ret = <<>>

NextDrain ==
  \/ TrailUpdate
  \/ ExplosionUpdate

SpecDrain ==
  /\ InitDrain
  /\ [][NextDrain]_vars
  /\ WF_vars(\E dt \in UpdateDts \ {0} : TrailUpdateBy(dt))
  /\ WF_vars(\E dt \in UpdateDts \ {0} : ExplosionUpdateBy(dt))

Capacity == IF mode = "trail" THEN TRAIL_MAX ELSE EXP_MAX

\* C21: the particle count of an emitter stays between 0 and the capacity
\* of its array, and no slot at or past the capacity is ever written
C21_CountWithinCapacity ==
  /\ arg.e.count >= 0
  /\ arg.e.count <= Capacity
  /\ arg.e.top < Capacity

\* a call that asked for more particles than there was room for
C21_Witness ==
  /\ ev.op = "trailEmit"
  /\ ev.pre.e.count > 0
  /\ ev.pre.e.accum + TrailSpawnRate * ev.pre.dt
       > Milli * (TRAIL_MAX - ev.pre.e.count)
  /\ arg.e.count = TRAIL_MAX
  /\ arg.e.accum >= Milli

C21_ExplosionWitness ==
  /\ ev.op = "bulletExplosionSpawnAt"
  /\ ev.pre.e.count + FireCount + SmokeCount + SparkCount > EXP_MAX
  /\ arg.e.count = EXP_MAX

Live(e) == SubSeq(e.p, 1, e.count)

Aged(q, dt) == [q EXCEPT !.life = @ - dt]

Survivors(s, dt) ==
  LET Lasting(q) == q.life - dt > 0
      kept == SelectSeq(s, Lasting)
  IN [i \in 1..Len(kept) |-> Aged(kept[i], dt)]

Updating(e) == e.op \in {"trailUpdate", "bulletExplosionUpdate"}

\* C23: after an update the slots below count hold exactly the particles
\* whose life is still above 0 once the frame time is taken off, in the
\* order they had before, and none of them has a life of 0 or less
C23_CompactionKeepsSurvivors ==
  [][Updating(ev') =>
       /\ Live(arg'.e) = Survivors(Live(ev'.pre.e), ev'.pre.dt)
       /\ \A i \in 1..arg'.e.count : arg'.e.p[i].life > 0]_vars

\* an update that dropped a particle lying before one it kept
C23_Witness ==
  /\ Updating(ev)
  /\ arg.e.count > 0
  /\ \E i, j \in 1..ev.pre.e.count :
       /\ i < j
       /\ ev.pre.e.p[i].life - ev.pre.dt <= 0
       /\ ev.pre.e.p[j].life - ev.pre.dt > 0
       /\ arg.e.p[1].id # ev.pre.e.p[1].id

Drained ==
  /\ arg.e.count = 0
  /\ mode = "explosion" => ~arg.e.active

\* C22: with no further emit or spawn call and updates going on with a
\* positive frame time, after finitely many updates the emitter holds no
\* particle, the explosion is inactive, and both stay so
C22_PoolsDrain == <>[]Drained

\* an update with a positive frame time has dropped the last particles
C22_Witness ==
  /\ Updating(ev)
  /\ ev.pre.e.count > 0
  /\ ev.pre.dt > 0
  /\ Drained

(* ---------------------------------------------------------------------- *)
(* Traversals and sweeps within the frame                                  *)
(* ---------------------------------------------------------------------- *)
Links(heap) == [a \in DOMAIN heap |-> <<heap[a].prev, heap[a].next>>]

\* the heaps as the loop of the operation about to run leaves them, before
\* its sweep
AfterTraversal ==
  IF run.pc = "checkBulletHitsUnits"
  THEN LET r == checkBulletHitsUnitsLoop(
                  [uheap |-> uheap, heap |-> bheap, stat |-> stat,
                   hits |-> <<>>, visited |-> <<>>], bullets, units.head, now)
       IN [heap |-> r.heap, uheap |-> r.uheap]
  ELSE IF run.pc = "checkBulletHitsPlayer"
  THEN LET r == checkBulletHitsPlayerLoop(
                  [target |-> player, heap |-> bheap, stat |-> stat,
                   hits |-> <<>>, visited |-> <<>>], bullets.head,
                  getPlayerBoundingBox(player), now)
       IN [heap |-> r.heap, uheap |-> uheap]
  ELSE IF run.pc = "bulletsResolveMutualCollisions"
  THEN [heap |-> mutualOuter(bheap, bullets.head, FALSE, <<>>).heap,
        uheap |-> uheap]
  ELSE IF run.pc = "drawUnits"
  THEN [heap |-> bheap,
        uheap |-> drawUnitsLoop(uheap, units.head, 0, units.length, FrameMs,
                                now)]
  ELSE IF run.pc = "drawBullets"
  THEN [heap |-> drawBulletsLoop(bheap, bullets.frame, stat, bullets.head,
                                 <<>>).heap,
        uheap |-> uheap]
  ELSE [heap |-> bheap, uheap |-> uheap]

BulletSweeps ==
  {"checkBulletHitsUnits", "checkBulletHitsPlayer",
   "bulletsResolveMutualCollisions", "drawBullets"}

UnitSweeps == {"drawUnits", "nextGameLevel", "dropGameLevel"}

\* C24: the loops of drawBullets, checkBulletHitsUnits,
\* checkBulletHitsPlayer, bulletsResolveMutualCollisions and drawUnits leave
\* every prev and next link and the set of nodes as they found them; nodes
\* leave a pool only in the sweep that follows such a loop (or, for units,
\* when the level is rebuilt)
C24_TraversalKeepsTopology ==
  [][/\ Links(AfterTraversal.heap) = Links(bheap)
     /\ Links(AfterTraversal.uheap) = Links(uheap)
     /\ ~(DOMAIN bheap \subseteq DOMAIN bheap') => ev'.op \in BulletSweeps
     /\ ~(DOMAIN uheap \subseteq DOMAIN uheap') => ev'.op \in UnitSweeps]_vars

\* a loop has flagged bullets it walked, and the sweep after it freed them
C24_Witness ==
  /\ ev.op = "checkBulletHitsPlayer"
  /\ ev.hits # <<>>
  /\ \A i \in DOMAIN ev.hits :
       /\ ev.hits[i].bullet \in hist.freed
       /\ ev.hits[i].bullet \notin IdxOf(bheap)
  /\ bullets.length > 0

\* every pointer kept in a pool (head, tail, prev, next) is NULL or the
\* address of an allocated node
PointersValid(list, heap) ==
  /\ {list.head, list.tail} \subseteq DOMAIN heap \cup {NULL}
  /\ \A a \in DOMAIN heap :
       {heap[a].prev, heap[a].next} \subseteq DOMAIN heap \cup {NULL}

\* C25: in every frame the operations reach nodes only through pointers to
\* allocated nodes: after each step no head, tail, prev or next pointer of
\* either pool leads to a freed node, the bullets an operation walks were
\* allocated when it started, and none of them had been freed before
C25_NoUseAfterFree ==
  [][/\ PointersValid(bullets', bheap')
     /\ PointersValid(units', uheap')
     /\ Range(ev'.visited) \subseteq IdxOf(bheap) \ hist.freed]_vars

\* nodes of both pools have been freed and a later operation walks what is
\* left
C25_Witness ==
  /\ ev.op = "bulletsResolveMutualCollisions"
  /\ ev.visited # <<>>
  /\ hist.freed # {}
  /\ units.length < UnitCount
  /\ units.head # NULL

\* the nodes a step adds to the bullet pool for one owner
Spawned(owner) ==
  {a \in DOMAIN bheap' : /\ bheap'[a].idx \notin IdxOf(bheap)
                         /\ bheap'[a].self.owner = owner}

\* the units whose time of the last shot a step changes
Shooters ==
  {a \in DOMAIN uheap \cap DOMAIN uheap' :
     uheap'[a].self.state.last_shoot # uheap[a].self.state.last_shoot}

\* C26: the player's bullet is spawned only when the time since the last
\* player spawn exceeds the player delay of the level, and a unit's bullet
\* only when the time since that unit's last shot exceeds the unit delay;
\* the times of the last spawn move only at such a shot, so two bullets in
\* a row of one shooter lie more than the delay apart
C26_FireRate ==
  [][/\ Spawned(BULLET_OWNER_PLAYER) # {} =>
          /\ ev'.op = "drawPlayer"
          /\ Cardinality(Spawned(BULLET_OWNER_PLAYER)) = 1
          /\ bullets'.last_spawn = now
     /\ bullets'.last_spawn # bullets.last_spawn =>
          /\ ev'.op = "drawPlayer"
          /\ now - bullets.last_spawn > level.player.bullet_delay_spawn
          /\ bullets'.last_spawn = now
     /\ Spawned(BULLET_OWNER_UNIT) # {} =>
          /\ ev'.op = "selectUnitsToFire"
          /\ Cardinality(Spawned(BULLET_OWNER_UNIT)) <= Cardinality(Shooters)
     /\ ev'.op \notin {"nextGameLevel", "dropGameLevel"} =>
          \A a \in Shooters :
            /\ ev'.op = "selectUnitsToFire"
            /\ now - uheap[a].self.state.last_shoot
                 > level.units.bullet_delay_spawn
            /\ uheap'[a].self.state.last_shoot = now]_vars

\* the player has fired a second time and a unit has fired a second time
C26_Witness ==
  /\ ev.op = "drawPlayer"
  /\ bullets.last_spawn = now
  /\ Cardinality({a \in DOMAIN bheap :
                    bheap[a].self.owner = BULLET_OWNER_PLAYER}) >= 2
  /\ \E a \in DOMAIN uheap : uheap[a].self.state.last_shoot > StartTime

C26_UnitWitness ==
  /\ ev.op = "selectUnitsToFire"
  /\ \E a \in DOMAIN uheap :
       /\ uheap[a].self.state.last_shoot = now
       /\ now - StartTime > 2 * level.units.bullet_delay_spawn
       /\ Cardinality({b \in DOMAIN bheap :
                         bheap[b].self.owner = BULLET_OWNER_UNIT}) >= 2

(* ---------------------------------------------------------------------- *)
(* The fall of destroyed units across the frames of runGame (game.c,       *)
(* unit.c): the hit checks of a frame are reduced to their fatal hits      *)
(* ---------------------------------------------------------------------- *)
MaxReapTime == 6000      \* frames are explored until GetTime() passes this
ReapHitWindow == 600     \* fatal hits land within this time of the start

LivingUnits(list, heap) ==
  {a \in Range(UnitAddrs(list, heap)) : heap[a].self.state.health > 0}

DestroyedUnits(list, heap) ==
  {a \in Range(UnitAddrs(list, heap)) : heap[a].self.state.health = 0}

InitReap ==
  /\ bullets = newBulletList(0)
  /\ bheap = <<>>
  /\ LET r == newUnitList(UnitCount, GameMaxCol, GAME_UNITS_Z_OFFSET, <<>>, TRUE)
     IN /\ units = r.list
        /\ uheap = r.heap
  /\ player = newPlayer(PLAYER_MAX_X, PLAYER_MAX_Z, PLAYER_OFFSET_Z)
  /\ stat = newGameStat
  /\ level = LevelAt(StartLevel)
  /\ run = [pc |-> "over", over |-> FALSE, over_tm |-> StartTime]
  /\ now = StartTime
  /\ keys = NoKeys
  /\ hist = NoHistory
  /\ ev = NoEvent
  /\ mode = "reap"
  /\ arg = <<>>
  /\ ret = <<>>

\* if (player->state.health <= 0 && !over) { over_tm = GetTime(); over = true; }
ReapOver ==
  /\ mode = "reap"
  /\ run.pc = "over"
  /\ run' = IF player.state.health <= 0 /\ ~run.over
            THEN [pc |-> "drop", over |-> TRUE, over_tm |-> now]
            ELSE [run EXCEPT !.pc = "drop"]
  /\ ev' = Event("over", TRUE, <<>>, <<>>, <<>>)
  /\ UNCHANGED <<poolVars, player, stat, level, now, keys, hist, mode, fnVars>>

\* if (over) if (GetTime() - over_tm > 5.0) { over = false; dropGameLevel(); }
ReapDrop ==
  /\ mode = "reap"
  /\ run.pc = "drop"
  /\ IF run.over /\ now - run.over_tm > GAME_OVER_DELAY
     THEN \E list_ok \in BOOLEAN :
            LET r == dropGameLevel(level, units, uheap, player, stat, list_ok)
            IN /\ level' = r.level
               /\ units' = r.units
               /\ uheap' = r.uheap
               /\ player' = r.player
               /\ stat' = r.stat
               /\ run' = [run EXCEPT !.pc = "next", !.over = FALSE]
               /\ ev' = Event("dropGameLevel", list_ok, <<>>, <<>>, <<>>)
     ELSE /\ run' = [run EXCEPT !.pc = "next"]
          /\ ev' = Event("drop", TRUE, <<>>, <<>>, <<>>)
          /\ UNCHANGED <<level, units, uheap, player, stat>>
  /\ UNCHANGED <<bullets, bheap, now, keys, hist, mode, fnVars>>

\* if (!enemies->head) if (!nextGameLevel(game)) return;
ReapNext ==
  /\ mode = "reap"
  /\ run.pc = "next"
  /\ IF units.head = NULL
     THEN \E list_ok \in BOOLEAN :
            LET r == nextGameLevel(level, units, uheap, player, list_ok)
            IN /\ level' = r.level
               /\ units' = r.units
               /\ uheap' = r.uheap
               /\ player' = r.player
               /\ run' = [run EXCEPT !.pc = IF r.ok THEN "hits" ELSE "return"]
               /\ ev' = Event("nextGameLevel", r.ok, <<>>, <<>>, <<>>)
     ELSE /\ run' = [run EXCEPT !.pc = "hits"]
          /\ ev' = Event("next", TRUE, <<>>, <<>>, <<>>)
          /\ UNCHANGED <<level, units, uheap, player>>
  /\ UNCHANGED <<bullets, bheap, stat, now, keys, hist, mode, fnVars>>

\* if (!over) { checkBulletHitsUnits(); checkBulletHitsPlayer(); ... }: the
\* units and the player that the bullets of this frame bring to health 0
ReapHits ==
  /\ mode = "reap"
  /\ run.pc = "hits"
  /\ IF run.over \/ now > StartTime + ReapHitWindow
     THEN UNCHANGED <<uheap, player>>
     ELSE \E killed \in SUBSET LivingUnits(units, uheap), fatal \in BOOLEAN :
            /\ uheap' = [a \in DOMAIN uheap |->
                           IF a \in killed
                           THEN [uheap[a] EXCEPT
                                   !.self.state.health =
                                      hitDamage(@, DEFAULT_UNIT_HEALTH),
                                   !.self.state.hit_time = now]
                           ELSE uheap[a]]
            /\ player' = IF fatal
                         THEN [player EXCEPT
                                 !.state.health =
                                    hitDamage(@, DEFAULT_UNIT_HEALTH),
                                 !.state.hit_time = now]
                         ELSE player
  /\ run' = [run EXCEPT !.pc = "drawUnits"]
  /\ ev' = Event("hits", TRUE, <<>>, <<>>, <<>>)
  /\ UNCHANGED <<bullets, bheap, units, stat, level, now, keys, hist, mode,
                 fnVars>>

ReapDrawUnits ==
  /\ mode = "reap"
  /\ run.pc = "drawUnits"
  /\ LET r == drawUnits(units, uheap, FrameMs, now)
     IN /\ units' = r.list
        /\ uheap' = r.heap
        /\ ev' = Event("drawUnits", TRUE,
                       Visibles(uheap, UnitAddrs(units, uheap)), <<>>, <<>>)
  /\ run' = [run EXCEPT !.pc = "EndDrawing"]
  /\ UNCHANGED <<bullets, bheap, player, stat, level, now, keys, hist, mode,
                 fnVars>>

\* the frame ends; the next one starts FrameMs later
ReapEndDrawing ==
  /\ mode = "reap"
  /\ run.pc = "EndDrawing"
  /\ now < StartTime + MaxReapTime
  /\ now' = now + FrameMs
  /\ run' = [run EXCEPT !.pc = "over"]
  /\ ev' = Event("EndDrawing", TRUE, <<>>, <<>>, <<>>)
  /\ UNCHANGED <<poolVars, player, stat, level, keys, hist, mode, fnVars>>

NextReap ==
  \/ ReapOver
  \/ ReapDrop
  \/ ReapNext
  \/ ReapHits
  \/ ReapDrawUnits
  \/ ReapEndDrawing

SpecReap == InitReap /\ [][NextReap]_vars

\* C27: a unit whose health has reached 0 stays in the enemy list, falling,
\* until a drawUnits call marks it invisible beyond z_max_area, and the sweep
\* of that same call is what removes it from the list
C27_DestroyedUnitsAreReaped ==
  [][\A a \in DestroyedUnits(units, uheap) :
       \/ a \in Range(UnitAddrs(units', uheap'))
       \/ /\ ev'.op = "drawUnits"
          /\ ~drawUnit(uheap[a].self, FrameMs, now).visible]_vars

(* ---------------------------------------------------------------------- *)
(* The sequence of levels (levels.c)                                       *)
(* ---------------------------------------------------------------------- *)
LEVELS_COUNT == 10
MaxLevelCalls == 56      \* calls of goToNextLevel and getFirstLevel explored

\* the level newGame starts with
InitLevel ==
  /\ bullets = newBulletList(0)
  /\ bheap = <<>>
  /\ units = emptyUnitList
  /\ uheap = <<>>
  /\ player = newPlayer(PLAYER_MAX_X, PLAYER_MAX_Z, PLAYER_OFFSET_Z)
  /\ stat = newGameStat
  /\ level = getFirstLevel
  /\ run = Idle
  /\ now = 0
  /\ keys = NoKeys
  /\ hist = NoHistory
  /\ ev = NoEvent
  /\ mode = "level"
  /\ arg = [calls |-> 0]
  /\ ret = <<>>

\* game->level = goToNextLevel(game->level), as nextGameLevel does
LevelNext ==
  /\ mode = "level"
  /\ arg.calls < MaxLevelCalls
  /\ level' = goToNextLevel(level)
  /\ arg' = [arg EXCEPT !.calls = @ + 1]
  /\ ev' = Event("goToNextLevel", TRUE, level, <<>>, <<>>)
  /\ UNCHANGED <<poolVars, player, stat, run, now, keys, hist, mode, ret>>

\* game->level = getFirstLevel(), as dropGameLevel does
LevelFirst ==
  /\ mode = "level"
  /\ arg.calls < MaxLevelCalls
  /\ level' = getFirstLevel
  /\ arg' = [arg EXCEPT !.calls = @ + 1]
  /\ ev' = Event("getFirstLevel", TRUE, level, <<>>, <<>>)
  /\ UNCHANGED <<poolVars, player, stat, run, now, keys, hist, mode, ret>>

NextLevel ==
  \/ LevelNext
  \/ LevelFirst

SpecLevel == InitLevel /\ [][NextLevel]_vars

\* C28: goToNextLevel wraps around: from the last defined level, number
\* LEVELS_COUNT - 1, it goes to the first level, and from any other level to
\* the level one higher, so the level number stays below LEVELS_COUNT
C28_LevelWraps ==
  [][ev'.op = "goToNextLevel" =>
       /\ level'.level = IF level.level = LEVELS_COUNT - 1
                         THEN getFirstLevel.level
                         ELSE level.level + 1
       /\ level'.level < LEVELS_COUNT]_vars

C29_ReturnWitness ==
  /\ mode = "game"
  /\ ev.op = "nextGameLevel"
  /\ ~ev.ok
  /\ run.pc = "return"

(* ---------------------------------------------------------------------- *)
(* Construction of the game and its failure paths (game.c)                 *)
(* ---------------------------------------------------------------------- *)
\* what a pointer field of Game can hold: NULL, a created component, or a
\* value that points to no object
Obj == 1
Wild == 2

\* the bytes malloc hands out are not initialised: a field that has not been
\* assigned reads as any value that is not a component
GarbageValues == {NULL, Wild}

GameFields ==
  {"enemies", "player", "bullets", "models", "textures", "sprites", "parallax"}

\* the steps of newGame in order; a step of "" assigns no field of Game
InitSteps ==
  <<[name |-> "textures", field |-> "textures"],
    [name |-> "models", field |-> "models"],
    [name |-> "enemy_model", field |-> ""],
    [name |-> "bullets", field |-> "bullets"],
    [name |-> "enemies", field |-> "enemies"],
    [name |-> "sprites", field |-> "sprites"],
    [name |-> "player_model", field |-> ""],
    [name |-> "player", field |-> "player"]>>

\* the calls of destroyGame in order
DestroyOrder ==
  <<"enemies", "player", "models", "bullets", "sprites", "textures",
    "parallax">>

\* destroyUnitList and destroyBulletList read list->head without a test and
\* free the nodes, not the list
Unguarded == {"enemies", "bullets"}

Nodes(c) == IF c = "enemies" THEN "enemies.nodes" ELSE "bullets.nodes"

\* the allocations a created component consists of
Allocations(c) == IF c = "enemies" THEN {c, Nodes(c)} ELSE {c}

\* one destroy call of destroyGame on the field f of component c
\* acc: live, the allocations not freed; touched, the components that were
\* read although never created; ub, whether an invalid pointer was used
destroyComponent(acc, c, f) ==
  LET a1 == IF f.set THEN acc ELSE [acc EXCEPT !.touched = @ \cup {c}]
  IN IF c \in Unguarded
     THEN IF f.v = Obj
          THEN [a1 EXCEPT !.live = @ \ {Nodes(c)}]
          ELSE [a1 EXCEPT !.ub = TRUE, !.touched = @ \cup {c}]
     ELSE IF f.v = NULL THEN a1
     ELSE IF f.v = Obj THEN [a1 EXCEPT !.live = @ \ {c}]
     ELSE [a1 EXCEPT !.ub = TRUE]

RECURSIVE destroyGameLoop(_, _, _)
destroyGameLoop(acc, game, i) ==
  IF i > Len(DestroyOrder) THEN acc
  ELSE destroyGameLoop(destroyComponent(acc, DestroyOrder[i],
                                        game[DestroyOrder[i]]), game, i + 1)

\* destroyGame(game) for a game that is not NULL; free(game) comes last
destroyGame(game, live) ==
  LET r == destroyGameLoop([live |-> live, touched |-> {}, ub |-> FALSE],
                           game, 1)
  IN [r EXCEPT !.live = @ \ {"game"}]

NoGame == [f \in GameFields |-> [v |-> NULL, set |-> FALSE]]

InitNewGame ==
  /\ bullets = newBulletList(0)
  /\ bheap = <<>>
  /\ units = emptyUnitList
  /\ uheap = <<>>
  /\ player = newPlayer(PLAYER_MAX_X, PLAYER_MAX_Z, PLAYER_OFFSET_Z)
  /\ stat = newGameStat
  /\ level = getFirstLevel
  /\ run = Idle
  /\ now = 0
  /\ keys = NoKeys
  /\ hist = NoHistory
  /\ ev = NoEvent
  /\ mode = "newGame"
  /\ arg = [pc |-> "malloc", step |-> 0, game |-> NoGame, live |-> {},
            touched |-> {}]
  /\ ret = <<>>

\* Game *game = malloc(sizeof(Game)); if (!game) return NULL;
NewGameMalloc ==
  /\ mode = "newGame"
  /\ arg.pc = "malloc"
  /\ \E ok \in BOOLEAN, garbage \in [GameFields -> GarbageValues] :
       IF ok
       THEN /\ arg' = [arg EXCEPT
                         !.pc = "step", !.step = 1,
                         !.game = [f \in GameFields |->
                                     [v |-> garbage[f], set |-> FALSE]],
                         !.live = {"game"}]
            /\ ret' = ret
            /\ ev' = Event("malloc", TRUE, <<>>, <<>>, <<>>)
       ELSE /\ arg' = [arg EXCEPT !.pc = "returned"]
            /\ ret' = NULL
            /\ ev' = Event("malloc", FALSE, <<>>, <<>>, <<>>)
  /\ UNCHANGED <<poolVars, player, stat, level, run, now, keys, hist, mode>>

\* one step of newGame: the component is created and stored, or the step
\* fails, destroyGame(game) is called and newGame returns NULL
\* empty: newShipModelList returned a list of length 0
\* crash: the outcome of a use of an invalid pointer in destroyGame
NewGameStep ==
  /\ mode = "newGame"
  /\ arg.pc = "step"
  /\ LET s == InitSteps[arg.step]
     IN \E ok \in BOOLEAN, empty \in BOOLEAN, crash \in BOOLEAN :
          /\ empty => ~ok /\ s.name = "models"
          /\ LET g == IF s.field = "" THEN arg.game
                      ELSE [arg.game EXCEPT
                              ![s.field] = [v |-> IF ok \/ empty THEN Obj
                                                  ELSE NULL,
                                            set |-> TRUE]]
                 l == IF s.field # "" /\ (ok \/ empty)
                      THEN arg.live \cup Allocations(s.field)
                      ELSE arg.live
                 d == destroyGame(g, l)
             IN IF ok
                THEN /\ ~crash
                     /\ arg' = [arg EXCEPT
                                  !.game = g, !.live = l,
                                  !.step = @ + 1,
                                  !.pc = IF arg.step = Len(InitSteps)
                                         THEN "parallax" ELSE "step"]
                     /\ ret' = ret
                ELSE /\ crash => d.ub
                     /\ arg' = [arg EXCEPT
                                  !.game = g, !.live = d.live,
                                  !.touched = d.touched,
                                  !.pc = IF crash THEN "crashed"
                                         ELSE "returned"]
                     /\ ret' = IF crash THEN ret ELSE NULL
          /\ ev' = Event(s.name, ok, <<>>, <<>>, <<>>)
  /\ UNCHANGED <<poolVars, player, stat, level, run, now, keys, hist, mode>>

\* parallaxInit, getFirstLevel, camera and light; return game
NewGameFinish ==
  /\ mode = "newGame"
  /\ arg.pc = "parallax"
  /\ arg' = [arg EXCEPT !.game["parallax"] = [v |-> Obj, set |-> TRUE],
                        !.live = @ \cup {"parallax"},
                        !.pc = "done"]
  /\ ret' = Obj
  /\ ev' = Event("parallax", TRUE, <<>>, <<>>, <<>>)
  /\ UNCHANGED <<poolVars, player, stat, level, run, now, keys, hist, mode>>

NextNewGame ==
  \/ NewGameMalloc
  \/ NewGameStep
  \/ NewGameFinish

SpecNewGame == InitNewGame /\ [][NextNewGame]_vars

\* C30: when a step of newGame fails, newGame returns NULL, everything
\* created before that step has been freed, and destroyGame has read,
\* traversed or freed no component that had not been created
C30_FailureCleansUp ==
  mode = "newGame" /\ arg.pc \in {"returned", "crashed"} =>
    /\ arg.pc = "returned"
    /\ ret = NULL
    /\ arg.live = {}
    /\ arg.touched = {}

(* ---------------------------------------------------------------------- *)
(* The in-front latch of the units                                         *)
(* ---------------------------------------------------------------------- *)
Linked(list, heap) == Range(UnitAddrs(list, heap))

\* the units of the pool that stand in the column of a, on a later line
Blockers(list, heap, a) ==
  {b \in Linked(list, heap) :
     /\ heap[b].self.position.col = heap[a].self.position.col
     /\ heap[b].self.position.ln > heap[a].self.position.ln}

Latched(heap, a) == heap[a].self.position.in_front

LevelRebuilds == {"nextGameLevel", "dropGameLevel"}

\* C31: isUnitAbleToFire returns false for a unit whose latch is unset while
\* a unit of the same column with a greater line index is in the pool; when
\* it returns true the latch is set, a set latch makes every later call
\* return true, and nothing clears the latch of a unit that stays in the pool
C31_LatchSetOnce ==
  [][/\ ev'.op = "selectUnitsToFire" =>
          \A a \in Linked(units, uheap) :
            LET r == isUnitAbleToFire(units, uheap, uheap[a].self)
            IN /\ ~Latched(uheap, a) /\ Blockers(units, uheap, a) # {} =>
                    ~r.able /\ ~Latched(uheap', a)
               /\ Latched(uheap, a) => r.able
               /\ r.able => r.unit.position.in_front
               /\ isPlayerOnFireLine(uheap[a].self, player, FIRE_LINE_FACTOR) =>
                    Latched(uheap', a) = r.able
     /\ ev'.op \notin LevelRebuilds =>
          \A a \in Linked(units, uheap) \cap Linked(units', uheap') :
            Latched(uheap, a) => Latched(uheap', a)]_vars

\* the unit on the later line is latched and the unit behind it has been
\* refused
C31_Witness ==
  /\ mode = "game"
  /\ ev.op = "selectUnitsToFire"
  /\ \E a \in Linked(units, uheap) :
       /\ ~Latched(uheap, a)
       /\ \E b \in Blockers(units, uheap, a) : Latched(uheap, b)

\* a latched unit is asked again after another unit has left the pool
C31_RemovalWitness ==
  /\ mode = "game"
  /\ ev.op = "selectUnitsToFire"
  /\ units.length = 1
  /\ Latched(uheap, units.head)
  /\ now > StartTime + FrameMs

\* C38: a unit whose latch is set has no unit of its column on a later line
\* in the pool it is linked in
C38_LatchSound ==
  \A a \in Linked(units, uheap) :
    Latched(uheap, a) => Blockers(units, uheap, a) = {}

\* a latched unit shares its column with another unit of the pool
C38_Witness ==
  /\ mode = "game"
  /\ \E a \in Linked(units, uheap) :
       /\ Latched(uheap, a)
       /\ \E b \in Linked(units, uheap) \ {a} :
            uheap[b].self.position.col = uheap[a].self.position.col
  /\ now > StartTime

(* ---------------------------------------------------------------------- *)
(* The formation built by newUnitList, one insertion of its loop at a time *)
(* ---------------------------------------------------------------------- *)
MaxFormation == 3        \* greatest count asked of newUnitList
MaxFormationCols == 3    \* greatest max_col asked of newUnitList
FormationOffsets == {0, GAME_UNITS_Z_OFFSET}

FormationMidX(max_col) ==
  ((DEFAULT_UNIT_WIDTH + UNIT_SPACE_HORIZONTAL) * max_col) \div 2
    - (DEFAULT_UNIT_WIDTH + UNIT_SPACE_HORIZONTAL) \div 2

\* units = malloc(...); length = 0; head = tail = NULL; i = count - 1
InitFormation ==
  /\ bullets = newBulletList(0)
  /\ bheap = <<>>
  /\ units = emptyUnitList
  /\ uheap = <<>>
  /\ player = newPlayer(PLAYER_MAX_X, PLAYER_MAX_Z, PLAYER_OFFSET_Z)
  /\ stat = newGameStat
  /\ level = getFirstLevel
  /\ run = Idle
  /\ now = 0
  /\ keys = NoKeys
  /\ hist = NoHistory
  /\ ev = NoEvent
  /\ mode = "formation"
  /\ arg \in {[count |-> c, max_col |-> m, z_offset |-> z, i |-> c - 1] :
                c \in 0..MaxFormation, m \in 1..MaxFormationCols,
                z \in FormationOffsets}
  /\ ret = <<>>

\* one pass of for (i = count - 1; i >= 0; i -= 1) insertToUnitList(...)
FormationInsert ==
  /\ mode = "formation"
  /\ arg.i >= 0
  /\ \E addr \in MallocChoices(uheap, UnitAddr) :
       LET r == insertToUnitList(units, uheap, newUnit, arg.max_col,
                                 FormationMidX(arg.max_col), arg.z_offset, addr)
       IN /\ units' = r.list
          /\ uheap' = r.heap
          /\ ev' = Event("insertToUnitList", addr # NULL, <<>>, <<>>, <<>>)
  /\ arg' = [arg EXCEPT !.i = @ - 1]
  /\ UNCHANGED <<bullets, bheap, gameVars, mode, ret>>

NextFormation == FormationInsert

SpecFormation == InitFormation /\ [][NextFormation]_vars

\* the grid cell and the place of the unit inserted k-th, k counted from 0
CellOf(k, max_col, z_offset) ==
  [col |-> k % max_col,
   ln |-> k \div max_col,
   x |-> (DEFAULT_UNIT_WIDTH + UNIT_SPACE_HORIZONTAL) * (k % max_col)
           - FormationMidX(max_col),
   z |-> (DEFAULT_UNIT_HEIGHT + UNIT_SPACE_VERTICAL) * (k \div max_col)
           - z_offset]

\* C32: the unit inserted k-th by newUnitList stands in column k mod max_col
\* on line k div max_col, at the x and z that newUnitNode derives from them;
\* no two units of the formation share a cell and every column is below
\* max_col
C32_FormationLayout ==
  mode = "formation" =>
    LET s == UnitAddrs(units, uheap)
    IN /\ \A k \in DOMAIN s :
            LET p == uheap[s[k]].self.position
                c == CellOf(k - 1, arg.max_col, arg.z_offset)
            IN /\ p.col = c.col
               /\ p.ln = c.ln
               /\ p.x = c.x
               /\ p.z = c.z
               /\ p.col < arg.max_col
       /\ \A j, k \in DOMAIN s :
            j # k =>
              <<uheap[s[j]].self.position.col, uheap[s[j]].self.position.ln>>
                # <<uheap[s[k]].self.position.col, uheap[s[k]].self.position.ln>>

\* a formation of three units in two columns is complete: the third unit
\* opens the second line
C32_Witness ==
  /\ mode = "formation"
  /\ arg.i < 0
  /\ arg.max_col = 2
  /\ units.length = 3
  /\ uheap[units.tail].self.position.ln = 1

\* C33: at every level the damage stored in the 8-bit BulletParameters of a
\* new bullet, which is what a hit subtracts, is the integer part of the
\* level's damage_life and damage_energy of the bullet's owner
C33_DamageVerbatim ==
  mode = "level" =>
    /\ \A p \in PlayerDamage :
         /\ p.health = level.player.damage_life \div Milli
         /\ p.energy = level.player.damage_energy \div Milli
    /\ \A p \in UnitDamage :
         /\ p.health = level.units.damage_life \div Milli
         /\ p.energy = level.units.damage_energy \div Milli

\* exactly one of the bits a and b is set in direction
OneOf(direction, a, b) == HasBit(direction, a) # HasBit(direction, b)

PairBits(direction, a, b) == <<HasBit(direction, a), HasBit(direction, b)>>

WellFormedDirection(a) ==
  /\ OneOf(a.direction, MOVEMENT_DIRECTION_LEFT, MOVEMENT_DIRECTION_RIGHT)
  /\ OneOf(a.direction, MOVEMENT_DIRECTION_FORWARD, MOVEMENT_DIRECTION_BACKWARD)
  /\ ~HasBit(a.direction, MOVEMENT_DIRECTION_UP)
  /\ ~HasBit(a.direction, MOVEMENT_DIRECTION_DOWN)
  /\ a.y = 0

\* the part of the action that belongs to the X pair, and to the Z pair
XPart(a) ==
  <<a.x, PairBits(a.direction, MOVEMENT_DIRECTION_LEFT, MOVEMENT_DIRECTION_RIGHT)>>

ZPart(a) ==
  <<a.z, PairBits(a.direction, MOVEMENT_DIRECTION_FORWARD,
                  MOVEMENT_DIRECTION_BACKWARD)>>

YPart(a) ==
  <<a.y, PairBits(a.direction, MOVEMENT_DIRECTION_UP, MOVEMENT_DIRECTION_DOWN)>>

\* C34: before and after every iterateMovementAction call the direction has
\* exactly one of LEFT and RIGHT, exactly one of FORWARD and BACKWARD, neither
\* UP nor DOWN, and the Y offset is 0; the step or flip of the X pair leaves
\* the bits and offsets of the Y and Z pairs as they were, and the step or
\* flip of the Z pair those of the X and Y pairs
C34_DirectionPairs ==
  [][ev'.op = "iterateMovementAction" =>
       /\ WellFormedDirection(arg.action)
       /\ WellFormedDirection(arg'.action)
       /\ \A r \in RandSteps :
            LET ax == iterateX(arg.action, r)
                ay == iterateY(ax, r)
                az == iterateZ(ay, r)
            IN /\ ZPart(ax) = ZPart(arg.action)
               /\ YPart(ax) = YPart(arg.action)
               /\ ay = ax
               /\ XPart(az) = XPart(ay)
               /\ YPart(az) = YPart(ay)]_vars

\* the X pair has flipped in the last call, and the Z pair has not
C34_Witness ==
  /\ mode = "move"
  /\ ev.op = "iterateMovementAction"
  /\ XPart(arg.action)[2] # XPart(ev.pre)[2]
  /\ ZPart(arg.action)[2] = ZPart(ev.pre)[2]
  /\ arg.action.z # ev.pre.z

\* the bullets linked in the pool after the step
Remaining == Range(BulletAddrs(bullets', bheap'))

\* C35: after bulletsResolveMutualCollisions no two bullets left in the pool
\* overlap in the XZ plane if their owners differ, and with
\* same_owner_collides set no two bullets left in the pool overlap at all
C35_NoOverlapRemains ==
  [][ev'.op = "bulletsResolveMutualCollisions" =>
       \A a, b \in Remaining :
         (a # b /\ (ev'.ok \/ bheap'[a].self.owner # bheap'[b].self.owner))
           => ~bulletsOverlapXZ(bheap'[a].self, bheap'[b].self)]_vars

\* three bullets, the first overlapping both others, which belong to the
\* other owner: the first pair is gone and the third bullet remains
C35_Witness ==
  /\ mode = "mutual"
  /\ ev.op = "bulletsResolveMutualCollisions"
  /\ ~ev.ok
  /\ Len(ev.pre) = 3
  /\ ev.pre[1].owner # ev.pre[2].owner
  /\ ev.pre[2].owner = ev.pre[3].owner
  /\ bulletsOverlapXZ(ev.pre[1], ev.pre[2])
  /\ bulletsOverlapXZ(ev.pre[1], ev.pre[3])
  /\ bullets.length = 1

InsideFrame(b, frame) ==
  frame.top <= b.position.z /\ b.position.z <= frame.bottom

\* C36: between the phases of a frame every bullet linked in the pool is
\* alive, so the length of the pool is the number of alive bullets, and at
\* the end of a frame that is not a game-over frame every linked bullet lies
\* inside the frame of the pool
C36_PoolHoldsLiveBullets ==
  mode = "game" =>
    LET s == BulletAddrs(bullets, bheap)
    IN /\ \A i \in DOMAIN s : bheap[s[i]].self.alive
       /\ bullets.length = Len(s)
       /\ Cardinality({a \in DOMAIN bheap : bheap[a].self.alive})
            = bullets.length
       /\ run.pc = "EndDrawing" /\ ~run.over =>
            \A i \in DOMAIN s : InsideFrame(bheap[s[i]].self, bullets.frame)

\* a frame ends in which drawBullets walked more bullets than it left in
\* the pool
C36_Witness ==
  /\ mode = "game"
  /\ run.pc = "EndDrawing"
  /\ ~run.over
  /\ ev.op = "drawBullets"
  /\ bullets.length > 0
  /\ Len(ev.visited) > bullets.length

\* the player bullets that leave the pool in the step
PlayerBulletsRemoved ==
  {a \in DOMAIN bheap :
     /\ bheap[a].self.owner = BULLET_OWNER_PLAYER
     /\ bheap[a].idx \notin IdxOf(bheap')}

\* C37: a step that counts hits or misses counts at most one for each player
\* bullet it removes from the pool, hits only in the hit check against the
\* units and misses only in drawBullets, and a mutual collision counts
\* nothing; a removed bullet never returns, so a bullet is counted once at
\* most and hits + misses stays within the player bullets spawned
C37_CountedOnce ==
  [][ev'.op # "dropGameLevel" =>
       /\ stat'.hits >= stat.hits
       /\ stat'.misses >= stat.misses
       /\ (stat'.hits - stat.hits) + (stat'.misses - stat.misses)
            <= Cardinality(PlayerBulletsRemoved)
       /\ stat'.hits # stat.hits =>
            /\ ev'.op = "checkBulletHitsUnits"
            /\ stat'.misses = stat.misses
       /\ stat'.misses # stat.misses =>
            /\ ev'.op = "drawBullets"
            /\ stat'.hits = stat.hits
       /\ IdxOf(bheap') \cap hist.freed = {}]_vars

\* hits and misses have both been counted in one run
C37_Witness ==
  /\ mode = "game"
  /\ stat.hits > 0
  /\ stat.misses > 0
  /\ ev.op = "drawBullets"

\* a mutual collision has removed a player bullet and counted nothing
C37_CollisionWitness ==
  /\ mode = "game"
  /\ ev.op = "bulletsResolveMutualCollisions"
  /\ Range(ev.visited) \ IdxOf(bheap) # {}
  /\ stat.hits = 0
  /\ stat.misses = 0

FramePhases ==
  {"checkBulletHitsUnits", "checkBulletHitsPlayer",
   "bulletsResolveMutualCollisions", "selectUnitsToFire", "drawPlayer",
   "drawBullets"}

\* C39: while the game is over no hit check, unit fire, player update or
\* bullet update runs and the statistics, the bullet pool, the health and
\* energy of the player and the level number stay as they are; the
\* dropGameLevel that ends the game-over state restores level 0, health and
\* energy 100 and zeroed statistics
C39_GameOverFreezes ==
  [][/\ run.over /\ run'.over =>
          /\ ev'.op \notin FramePhases
          /\ stat' = stat
          /\ bullets' = bullets
          /\ bheap' = bheap
          /\ player'.state.health = player.state.health
          /\ player'.state.energy = player.state.energy
          /\ level'.level = level.level
     /\ ev'.op = "dropGameLevel" /\ ev'.ok =>
          /\ run.over
          /\ ~run'.over
          /\ level'.level = 0
          /\ player'.state.health = DEFAULT_UNIT_HEALTH
          /\ player'.state.energy = DEFAULT_UNIT_ENERGY
          /\ stat' = newGameStat]_vars


\* ---------------------------------------------------------------------------
\* The tilt of the player ship: rotate_x and rotate_z of PlayerVisualState as
\* updatePlayer changes them once a frame.  Degrees are kept in thousandths.
\* The statements of updatePlayer on the position, the acceleration and the
\* bullets neither read nor write the rotate fields.
\* ---------------------------------------------------------------------------
MAX_ROTATE_X == 15000
MAX_ROTATE_Z == 35000
STEP_ROTATE_X == 1000
STEP_ROTATE_Z == 2000

DirectionKeys == {"KEY_LEFT", "KEY_RIGHT", "KEY_UP", "KEY_DOWN"}

\* newPlayerVisualState: level tilt, the limits and the steps
newPlayerVisualState ==
  [rotate_x |-> 0, rotate_z |-> 0,
   max_rotate_x |-> MAX_ROTATE_X, max_rotate_z |-> MAX_ROTATE_Z,
   rotate_step_x |-> STEP_ROTATE_X, rotate_step_z |-> STEP_ROTATE_Z]

\* no direction key is down: if (rotate != 0) one step towards 0
settleTilt(rotate, step) ==
  IF rotate # 0
  THEN IF rotate < 0 THEN rotate + step ELSE rotate - step
  ELSE rotate

\* a direction key is down: one step, then
\* fabsf(rotate) >= max_rotate ? limit : rotate
steerTilt(rotate, step, max_rotate, limit) ==
  IF Abs(rotate + step) >= max_rotate THEN limit ELSE rotate + step

\* the rotate fields after one call of updatePlayer with the keys `down` held
updatePlayerTilt(state, down) ==
  IF down \cap DirectionKeys = {}
  THEN [state EXCEPT
          !.rotate_x = settleTilt(@, state.rotate_step_x),
          !.rotate_z = settleTilt(@, state.rotate_step_z)]
  ELSE LET z1 == IF "KEY_LEFT" \in down
                 THEN steerTilt(state.rotate_z, -state.rotate_step_z,
                                state.max_rotate_z, -state.max_rotate_z)
                 ELSE state.rotate_z
           z2 == IF "KEY_RIGHT" \in down
                 THEN steerTilt(z1, state.rotate_step_z,
                                state.max_rotate_z, state.max_rotate_z)
                 ELSE z1
           x1 == IF "KEY_UP" \in down
                 THEN steerTilt(state.rotate_x, state.rotate_step_x,
                                state.max_rotate_x, state.max_rotate_x)
                 ELSE state.rotate_x
           x2 == IF "KEY_DOWN" \in down
                 THEN steerTilt(x1, -state.rotate_step_x,
                                state.max_rotate_x, -state.max_rotate_x)
                 ELSE x1
       IN [state EXCEPT !.rotate_x = x2, !.rotate_z = z2]

InitTilt ==
  /\ bullets = newBulletList(0)
  /\ bheap = <<>>
  /\ units = emptyUnitList
  /\ uheap = <<>>
  /\ player = newPlayer(PLAYER_MAX_X, PLAYER_MAX_Z, PLAYER_OFFSET_Z)
  /\ stat = newGameStat
  /\ level = getFirstLevel
  /\ run = Idle
  /\ now = 0
  /\ keys = NoKeys
  /\ hist = NoHistory
  /\ ev = NoEvent
  /\ mode = "tilt"
  /\ arg = [state |-> newPlayerVisualState, down |-> {}]
  /\ ret = <<>>

\* one frame: drawPlayer calls updatePlayer with the keys held in this frame
UpdatePlayerTilt ==
  /\ mode = "tilt"
  /\ \E down \in SUBSET DirectionKeys :
       arg' = [state |-> updatePlayerTilt(arg.state, down), down |-> down]
  /\ ev' = Event("updatePlayer", TRUE, <<arg.state>>, <<>>, <<>>)
  /\ UNCHANGED <<poolVars, gameVars, mode, ret>>

NextTilt == UpdatePlayerTilt

\* runGame draws the player in every frame of its loop while the game is not
\* over, so the frames keep coming
SpecTilt == InitTilt /\ [][NextTilt]_vars /\ WF_vars(UpdatePlayerTilt)

TiltBounded ==
  /\ Abs(arg.state.rotate_x) <= arg.state.max_rotate_x
  /\ Abs(arg.state.rotate_z) <= arg.state.max_rotate_z

TiltLevel == arg.state.rotate_x = 0 /\ arg.state.rotate_z = 0

\* C40: the tilt never leaves its limits (15 and 35 degrees), and when no
\* direction key is held from some frame on, rotate_x and rotate_z are both
\* exactly 0 after finitely many frames and stay 0
C40_TiltSettles ==
  /\ [](mode = "tilt" => TiltBounded)
  /\ (<>[](arg.down = {}) => <>[]TiltLevel)

====
